---------------------------- MODULE Spec2Model ----------------------------
(***************************************************************************)
(* Portfolio-optimization engine of investflow-backend                     *)
(* (src/src/services/optimizers, src/src/services/risk_calculator.py).     *)
(*                                                                         *)
(* Numbers are exact rationals <<n, d>> with d > 0 in lowest terms.  The   *)
(* code computes in numpy float64, where a division by zero does not       *)
(* raise: it yields inf, -inf or nan.  Those three are the pairs <<1, 0>>, *)
(* <<-1, 0>> and <<0, 0>>, and the arithmetic below propagates them as     *)
(* IEEE-754 does.                                                          *)
(***************************************************************************)
EXTENDS Integers, Sequences, FiniteSets, TLC

(***************************************************************************)
(* Extended rational arithmetic (numpy float64 scalars).                   *)
(***************************************************************************)
Abs(n) ==
    IF n < 0 THEN -n ELSE n

Sign(n) ==
    IF n < 0 THEN -1 ELSE IF n > 0 THEN 1 ELSE 0

RECURSIVE GCD(_, _)
GCD(a, b) ==
    IF b = 0 THEN a ELSE GCD(b, a % b)

Norm(n, d) ==
    IF d = 0 THEN <<Sign(n), 0>>
    ELSE LET g == GCD(Abs(n), Abs(d))
             s == IF d < 0 THEN -1 ELSE 1
         IN  <<(s * n) \div g, (s * d) \div g>>

R(n) ==
    <<n, 1>>

Zero ==
    <<0, 1>>

One ==
    <<1, 1>>

NaN ==
    <<0, 0>>

Inf ==
    <<1, 0>>

IsFinite(x) ==
    x[2] # 0

IsNaN(x) ==
    x = NaN

IsZero(x) ==
    x[2] # 0 /\ x[1] = 0

RNeg(x) ==
    <<-x[1], x[2]>>

RAdd(x, y) ==
    IF IsNaN(x) \/ IsNaN(y) THEN NaN
    ELSE IF ~IsFinite(x) THEN (IF ~IsFinite(y) /\ y # x THEN NaN ELSE x)
    ELSE IF ~IsFinite(y) THEN y
    ELSE LET g == GCD(x[2], y[2])
         IN  Norm(x[1] * (y[2] \div g) + y[1] * (x[2] \div g), (x[2] \div g) * y[2])

RSub(x, y) ==
    RAdd(x, RNeg(y))

RMul(x, y) ==
    IF IsNaN(x) \/ IsNaN(y) THEN NaN
    ELSE IF ~IsFinite(x) \/ ~IsFinite(y)
         THEN (IF IsZero(x) \/ IsZero(y) THEN NaN ELSE <<Sign(x[1]) * Sign(y[1]), 0>>)
    ELSE LET g1 == GCD(Abs(x[1]), y[2])
             g2 == GCD(Abs(y[1]), x[2])
         IN  Norm((x[1] \div g1) * (y[1] \div g2), (x[2] \div g2) * (y[2] \div g1))

\* 1/x as numpy computes it: 1/0 is inf, 1/inf is 0, 1/nan is nan.
RInv(x) ==
    IF IsNaN(x) THEN NaN
    ELSE IF ~IsFinite(x) THEN Zero
    ELSE IF x[1] = 0 THEN Inf
    ELSE Norm(x[2], x[1])

RDiv(x, y) ==
    RMul(x, RInv(y))

\* Comparisons; every comparison with nan is false, as in IEEE-754.
RLt(x, y) ==
    IF IsNaN(x) \/ IsNaN(y) THEN FALSE
    ELSE IF ~IsFinite(x) THEN x[1] < 0 /\ y # x
    ELSE IF ~IsFinite(y) THEN y[1] > 0
    ELSE x[1] * y[2] < y[1] * x[2]

RLe(x, y) ==
    IF IsNaN(x) \/ IsNaN(y) THEN FALSE ELSE x = y \/ RLt(x, y)

\* floor(x * 10^4 + 1/2): the value of a finite x to 4 decimals, in units of 1e-4.
Round4(x) ==
    (2 * 10000 * x[1] + x[2]) \div (2 * x[2])

(***************************************************************************)
(* Vectors are tuples of numbers, matrices tuples of rows (numpy arrays).  *)
(***************************************************************************)
Len1(v) ==
    1..Len(v)

\* the tuple <<F[1], ..., F[n]>> of a function F on 1..n, n <= 4, built element by element
MkVec(n, F) ==
    CASE n = 0 -> <<>>
      [] n = 1 -> <<F[1]>>
      [] n = 2 -> <<F[1], F[2]>>
      [] n = 3 -> <<F[1], F[2], F[3]>>
      [] n = 4 -> <<F[1], F[2], F[3], F[4]>>

RECURSIVE SumTo(_, _)
SumTo(v, k) ==
    IF k = 0 THEN Zero ELSE RAdd(SumTo(v, k - 1), v[k])

\* np.sum(v), e @ v
VSum(v) ==
    SumTo(v, Len(v))

\* u @ v
Dot(u, v) ==
    VSum(MkVec(Len(u), [i \in 1..Len(u) |-> RMul(u[i], v[i])]))

\* M @ v
MatVec(M, v) ==
    MkVec(Len(M), [i \in 1..Len(M) |-> Dot(M[i], v)])

Col(M, j) ==
    MkVec(Len(M), [i \in 1..Len(M) |-> M[i][j]])

\* M.T
Transpose(M) ==
    MkVec(Len(M[1]), [j \in 1..(Len(M[1])) |-> Col(M, j)])

\* A @ B
MatMul(A, B) ==
    MkVec(Len(A), [i \in 1..Len(A) |-> MkVec(Len(B[1]), [j \in 1..(Len(B[1])) |-> Dot(A[i], Col(B, j))])])

MatAdd(A, B) ==
    MkVec(Len(A), [i \in 1..Len(A) |-> MkVec(Len(A[1]), [j \in 1..(Len(A[1])) |-> RAdd(A[i][j], B[i][j])])])

\* c * M, c * v
MatScale(c, M) ==
    MkVec(Len(M), [i \in 1..Len(M) |-> MkVec(Len(M[1]), [j \in 1..(Len(M[1])) |-> RMul(c, M[i][j])])])

VScale(c, v) ==
    MkVec(Len(v), [i \in 1..Len(v) |-> RMul(c, v[i])])

VAdd(u, v) ==
    MkVec(Len(u), [i \in 1..Len(u) |-> RAdd(u[i], v[i])])

VSub(u, v) ==
    MkVec(Len(u), [i \in 1..Len(u) |-> RSub(u[i], v[i])])

\* w @ S @ w
Quad(w, M) ==
    Dot(w, MatVec(M, w))

\* np.ones(n)
Ones(n) ==
    MkVec(n, [i \in 1..n |-> One])

\* the tuple s without its k-th element
DropAt(s, k) ==
    MkVec(Len(s) - 1, [i \in 1..(Len(s) - 1) |-> IF i < k THEN s[i] ELSE s[i + 1]])

Minor(M, r, c) ==
    MkVec(Len(M) - 1, [i \in 1..(Len(M) - 1) |-> DropAt(M[IF i < r THEN i ELSE i + 1], c)])

RECURSIVE Det(_)
RECURSIVE DetRow(_, _)
DetRow(M, j) ==
    IF j = 0 THEN Zero
    ELSE RAdd(DetRow(M, j - 1),
              RMul(IF j % 2 = 1 THEN M[1][j] ELSE RNeg(M[1][j]), Det(Minor(M, 1, j))))

Det(M) ==
    IF Len(M) = 0 THEN One
    ELSE IF Len(M) = 1 THEN M[1][1]
    ELSE DetRow(M, Len(M))

\* np.linalg.inv raises LinAlgError("Singular matrix") exactly when this is false.
Invertible(M) ==
    ~IsZero(Det(M))

\* np.linalg.inv(M) for an invertible M: the adjugate over the determinant.
Inverse(M) ==
    LET d == Det(M)
    IN  MkVec(Len(M), [i \in 1..Len(M) |-> MkVec(Len(M), [j \in 1..Len(M) |->
            RDiv(RMul(IF (i + j) % 2 = 0 THEN One ELSE RNeg(One), Det(Minor(M, j, i))), d)])])

(***************************************************************************)
(* Bounds of the model and the inputs drawn from them.                     *)
(***************************************************************************)
\* volatilities of the assets are 1..MaxVol (in units of the input scale)
MaxVol ==
    2

\* the expected return of the first asset is 0..MaxMu, of the others 0 or 1
MaxMu ==
    1

\* pairwise correlations of the two-asset inputs; +-1 gives a singular matrix
\* (1 with equal volatilities: two identical return columns)
Correlations ==
    {<<-1, 1>>, <<-1, 2>>, <<0, 1>>, <<3, 4>>, <<1, 1>>}

Vols ==
    1..MaxVol

Cov2(s1, s2, rho) ==
    <<<<R(s1 * s1), RMul(rho, R(s1 * s2))>>, <<RMul(rho, R(s1 * s2)), R(s2 * s2)>>>>

Diag3(s1, s2, s3) ==
    <<<<R(s1 * s1), Zero, Zero>>, <<Zero, R(s2 * s2), Zero>>, <<Zero, Zero, R(s3 * s3)>>>>

\* two assets: every volatility pair, correlation and mean vector
Inputs2 ==
    {[mu |-> <<R(m1), R(m2)>>, S |-> Cov2(s1, s2, rho)] :
        m1 \in 0..MaxMu, m2 \in 0..1, s1 \in Vols, s2 \in Vols, rho \in Correlations}

\* three uncorrelated assets
Inputs3 ==
    {[mu |-> <<R(m), R(1), R(0)>>, S |-> Diag3(s1, s2, s3)] :
        m \in 0..MaxMu, s1 \in Vols, s2 \in Vols, s3 \in Vols}

\* the two worked scenarios: mu = [0.001, 0.002], Sigma = diag(0.0004, 0.0009);
\* and Sigma = diag(0.04, 0.09, 0.01)
ScenarioMu2 ==
    <<<<1, 1000>>, <<1, 500>>>>

ScenarioS2 ==
    <<<<<<1, 2500>>, Zero>>, <<Zero, <<9, 10000>>>>>>

ScenarioS3 ==
    <<<<<<1, 25>>, Zero, Zero>>, <<Zero, <<9, 100>>, Zero>>, <<Zero, Zero, <<1, 100>>>>>>

ScenarioInputs ==
    {[mu |-> ScenarioMu2, S |-> ScenarioS2],
     [mu |-> <<<<1, 500>>, <<1, 1000>>>>, S |-> ScenarioS2],
     [mu |-> <<Zero, Zero>>, S |-> ScenarioS2],
     [mu |-> <<<<1, 1000>>, <<1, 500>>, Zero>>, S |-> ScenarioS3]}

Inputs ==
    Inputs2 \cup Inputs3

\* risk tolerances passed to compute_portfolio
Taus ==
    {<<-1, 1>>, <<0, 1>>, <<1, 2>>, <<1, 1>>, <<2, 1>>}

(***************************************************************************)
(* State: the caller's inputs, the optimizer object last constructed, and  *)
(* the outcome of the last call.  For the reporting pipeline the inputs    *)
(* are the request and the price table the data source holds for it; for   *)
(* the risk utilities the input is a series.                               *)
(***************************************************************************)
VARIABLES mu, S, opt, ret, request, prices, series, service

vars ==
    <<mu, S, opt, ret, request, prices, series, service>>

None ==
    <<>>

NoOpt ==
    [cls |-> "none", mu |-> None, S |-> None, S_inv |-> None, A |-> None, B |-> None,
     a |-> None, b |-> None, P |-> None, Q |-> None, tau |-> None, Omega |-> None,
     mu_bl |-> None, rf |-> None]

\* raised = "none": the call returned; otherwise the exception type it raised.
\* success is result.success of the call's minimize(), value the result of a
\* call that returns something other than a portfolio, status the HTTP status,
\* calls the functions the call invoked, in order, where that is recorded
NoRet ==
    [call |-> "none", raised |-> "none", msg |-> "", arg |-> None, weights |-> None,
     mu_p |-> None, sigma_p2 |-> None, ratio |-> None, risk_contrib |-> None,
     success |-> None, value |-> None, status |-> None, calls |-> None]

\* a behaviour follows one optimizer object from its construction on
NoCallYet ==
    opt.cls = "none" /\ ret.call = "none"

Raise(call, type, msg, arg) ==
    [NoRet EXCEPT !.call = call, !.raised = type, !.msg = msg, !.arg = arg]

(***************************************************************************)
(* Mean_variance_optimizer (analytic two-fund form).                       *)
(***************************************************************************)
\* __init__ after the inverse succeeded
MVInit(m, C) ==
    LET S_inv == Inverse(C)
        e == Ones(Len(m))
        A == MatVec(S_inv, e)
        B == MatVec(S_inv, m)
    IN  [NoOpt EXCEPT !.cls = "Mean_variance_optimizer", !.mu = m, !.S = C,
                      !.S_inv = S_inv, !.A = A, !.B = B, !.a = Dot(e, A), !.b = Dot(e, B)]

\* the weight formula with the factor tau of the second fund left out
MVWeightsNoTau(o, tau) ==
    VAdd(VScale(RInv(o.a), o.A), VSub(o.B, VScale(RDiv(o.b, o.a), o.A)))

\* the weight formula of compute_portfolio
MVWeights(o, tau) ==
    VAdd(VScale(RInv(o.a), o.A), VScale(tau, VSub(o.B, VScale(RDiv(o.b, o.a), o.A))))

\* compute_portfolio(tau) for tau >= 0: (w, mu_p, sigma_p2, ratio)
MVPortfolio(o, tau) ==
    LET w == MVWeights(o, tau)
        mu_p == Dot(w, o.mu)
        sigma_p2 == Quad(w, o.S)
    IN  [NoRet EXCEPT !.call = "Mean_variance_optimizer.compute_portfolio", !.arg = tau,
                      !.weights = w, !.mu_p = mu_p, !.sigma_p2 = sigma_p2,
                      !.ratio = IF sigma_p2 # Zero THEN RDiv(mu_p, sigma_p2) ELSE Inf]

\* __init__ without the try/except around np.linalg.inv
MVConstructUnguarded ==
    /\ NoCallYet
    /\ IF Invertible(S)
       THEN /\ opt' = MVInit(mu, S)
            /\ ret' = [NoRet EXCEPT !.call = "Mean_variance_optimizer.__init__"]
       ELSE /\ opt' = NoOpt
            /\ ret' = Raise("Mean_variance_optimizer.__init__", "LinAlgError",
                            "Singular matrix", None)
    /\ UNCHANGED <<mu, S, request, prices, series, service>>

MVConstruct ==
    /\ NoCallYet
    /\ IF Invertible(S)
       THEN /\ opt' = MVInit(mu, S)
            /\ ret' = [NoRet EXCEPT !.call = "Mean_variance_optimizer.__init__"]
       ELSE /\ opt' = NoOpt
            /\ ret' = Raise("Mean_variance_optimizer.__init__", "ValueError",
                            "Covariance matrix is not invertible.", None)
    /\ UNCHANGED <<mu, S, request, prices, series, service>>

MVComputePortfolio ==
    /\ opt.cls = "Mean_variance_optimizer"
    /\ \E tau \in Taus :
          ret' = IF RLt(tau, Zero)
                 THEN Raise("Mean_variance_optimizer.compute_portfolio", "ValueError",
                            "Risk tolerance tau must be non-negative.", tau)
                 ELSE MVPortfolio(opt, tau)
    /\ UNCHANGED <<mu, S, opt, request, prices, series, service>>

(***************************************************************************)
(* Mean_variance_optimizer.find_optimal_portfolio: the sweep over tau.     *)
(***************************************************************************)
\* the largest num_points passed to find_optimal_portfolio
MaxPoints ==
    3

\* the arguments tau_range and num_points
TauRanges ==
    {<<R(-1), One>>, <<Zero, One>>, <<Zero, R(2)>>, <<One, One>>, <<R(2), One>>}

NumPoints ==
    (-1)..MaxPoints

\* np.linspace(lo, hi, n) for n >= 0: n evenly spaced samples, lo alone for n = 1
Linspace(lo, hi, n) ==
    IF n = 0 THEN <<>>
    ELSE IF n = 1 THEN <<lo>>
    ELSE MkVec(n, [i \in 1..n |-> RAdd(lo, RMul(R(i - 1), RDiv(RSub(hi, lo), R(n - 1))))])

\* the check of tau_range without the comparison of its two ends
SweepValidateNoOrder(tau_range) ==
    IF RLt(tau_range[1], Zero)
    THEN "tau_range must contain non-negative values with min <= max."
    ELSE ""

\* the check at the head of find_optimal_portfolio; "" when it passes
SweepValidate(tau_range) ==
    IF RLt(tau_range[1], Zero) \/ RLt(tau_range[2], tau_range[1])
    THEN "tau_range must contain non-negative values with min <= max."
    ELSE ""

\* [self.compute_portfolio(tau) for tau in taus]; every tau is >= 0 here
SweepResults(o, taus) ==
    MkVec(Len(taus), [i \in 1..Len(taus) |-> MVPortfolio(o, taus[i])])

\* all(w >= 0)
AllNonNegative(w) ==
    \A i \in Len1(w) : RLe(Zero, w[i])

\* [i for i, result in enumerate(results) if all(result[0] >= 0)], from i on
RECURSIVE ValidIndicesFrom(_, _)
ValidIndicesFrom(results, i) ==
    IF i > Len(results) THEN <<>>
    ELSE (IF AllNonNegative(results[i].weights) THEN <<i>> ELSE <<>>)
         \o ValidIndicesFrom(results, i + 1)

\* the index of the first smallest of the first k values
RECURSIVE ArgMinTo(_, _)
ArgMinTo(r, k) ==
    IF k = 1 THEN 1
    ELSE LET b == ArgMinTo(r, k - 1)
         IN  IF RLt(r[k], r[b]) THEN k ELSE b

\* np.argmax of the first k values: the index of the first largest one, a
\* nan counting as the largest
RECURSIVE ArgMaxTo(_, _)
ArgMaxTo(r, k) ==
    IF k = 1 THEN 1
    ELSE LET b == ArgMaxTo(r, k - 1)
         IN  IF IsNaN(r[b]) THEN b
             ELSE IF IsNaN(r[k]) \/ RLt(r[b], r[k]) THEN k
             ELSE b

\* the index the sweep selects among results (a non-empty list)
OptimalIndex(results, enforce_positive_weights) ==
    LET valid_indices == ValidIndicesFrom(results, 1)
        all_ratios == MkVec(Len(results), [i \in 1..Len(results) |-> results[i].ratio])
        valid_ratios == MkVec(Len(valid_indices),
                              [i \in 1..Len(valid_indices) |-> results[valid_indices[i]].ratio])
    IN  IF enforce_positive_weights /\ valid_indices # <<>>
        THEN valid_indices[ArgMaxTo(valid_ratios, Len(valid_ratios))]
        ELSE ArgMaxTo(all_ratios, Len(all_ratios))

\* find_optimal_portfolio(tau_range, num_points, enforce_positive_weights):
\* the dictionary it returns (tau in value) or the ValueError it ends with
FindOptimalPortfolio(o, tau_range, num_points, enforce_positive_weights) ==
    LET call == "Mean_variance_optimizer.find_optimal_portfolio"
        arg == [tau_range |-> tau_range, num_points |-> num_points,
                enforce_positive_weights |-> enforce_positive_weights]
        invalid == SweepValidate(tau_range)
        taus == Linspace(tau_range[1], tau_range[2], num_points)
        results == SweepResults(o, taus)
        optimal_idx == OptimalIndex(results, enforce_positive_weights)
    IN  IF invalid # "" THEN Raise(call, "ValueError", invalid, arg)
        ELSE IF num_points < 0
             THEN Raise(call, "ValueError", "Number of samples must be non-negative.", arg)
        ELSE IF num_points = 0
             THEN Raise(call, "ValueError", "attempt to get argmax of an empty sequence", arg)
        ELSE [results[optimal_idx] EXCEPT !.call = call, !.arg = arg,
                                          !.value = taus[optimal_idx]]

\* a sweep on the constructed optimizer; a sweep leaves the object as it is,
\* so one directly after another reaches nothing new
MVFindOptimalPortfolio ==
    /\ opt.cls = "Mean_variance_optimizer"
    /\ ret.call # "Mean_variance_optimizer.find_optimal_portfolio"
    /\ \E tau_range \in TauRanges, num_points \in NumPoints, enforce \in BOOLEAN :
          ret' = FindOptimalPortfolio(opt, tau_range, num_points, enforce)
    /\ UNCHANGED <<mu, S, opt, request, prices, series, service>>

(***************************************************************************)
(* BlackLittermanOptimizer.                                                *)
(***************************************************************************)
\* the default of the tau parameter of __init__
DefaultTau ==
    <<1, 20>>

BLTaus ==
    {DefaultTau, Zero}

\* np.diag(np.diag(M))
DiagOf(M) ==
    MkVec(Len(M), [i \in 1..Len(M) |-> MkVec(Len(M), [j \in 1..Len(M) |-> IF i = j THEN M[i][j] ELSE Zero])])

ZeroMat(k) ==
    MkVec(k, [i \in 1..k |-> MkVec(k, [j \in 1..k |-> Zero])])

Identity(k) ==
    MkVec(k, [i \in 1..k |-> MkVec(k, [j \in 1..k |-> IF i = j THEN One ELSE Zero])])

\* pick matrices: one absolute view, one relative view, a view on every asset
UnitRow(n, i) ==
    MkVec(n, [j \in 1..n |-> IF j = i THEN One ELSE Zero])

Picks(n) ==
    {<<UnitRow(n, 1)>>, <<VSub(UnitRow(n, 1), UnitRow(n, 2))>>, Identity(n)}

QVals ==
    {<<-1, 1>>, <<1, 1>>}

\* view-return vectors of length k
Views(k) ==
    CASE k = 1 -> {<<q>> : q \in QVals}
      [] k = 2 -> QVals \X QVals
      [] k = 3 -> QVals \X QVals \X QVals

\* the Omega argument: None (the default), or a k x k matrix
Omegas(k) ==
    {None, ZeroMat(k)}

\* P @ (tau * S) @ P.T
ViewCov(C, P, tau) ==
    MatMul(MatMul(P, MatScale(tau, C)), Transpose(P))

\* self.Omega as __init__ sets it
BLOmega(C, P, Omega, tau) ==
    IF Omega = None THEN DiagOf(ViewCov(C, P, tau)) ELSE Omega

\* the matrix _compute_bl_returns inverts
BLMiddle(o) ==
    MatAdd(ViewCov(o.S, o.P, o.tau), o.Omega)

\* _compute_bl_returns with S in place of tau * S in the adjustment
BLReturnsUnscaled(o) ==
    LET middle_term == Inverse(BLMiddle(o))
        adjustment == MatVec(MatMul(MatMul(o.S, Transpose(o.P)), middle_term),
                             VSub(o.Q, MatVec(o.P, o.mu)))
    IN  VAdd(o.mu, adjustment)

\* _compute_bl_returns, once np.linalg.inv succeeded
BLReturns(o) ==
    LET tauS == MatScale(o.tau, o.S)
        middle_term == Inverse(BLMiddle(o))
        adjustment == MatVec(MatMul(MatMul(tauS, Transpose(o.P)), middle_term),
                             VSub(o.Q, MatVec(o.P, o.mu)))
    IN  VAdd(o.mu, adjustment)

\* the fields __init__ sets before it calls _compute_bl_returns (mu holds mu_eq)
BLFields(m, C, P, Q, Omega, tau) ==
    [NoOpt EXCEPT !.cls = "BlackLittermanOptimizer", !.mu = m, !.S = C, !.P = P, !.Q = Q,
                  !.tau = tau, !.Omega = BLOmega(C, P, Omega, tau)]

\* weights /= np.sum(weights)
Normalize(w) ==
    LET s == VSum(w) IN MkVec(Len(w), [i \in 1..Len(w) |-> RDiv(w[i], s)])

\* compute_portfolio, once np.linalg.inv(self.S) succeeded
BLPortfolio(o) ==
    LET weights == Normalize(MatVec(Inverse(o.S), o.mu_bl))
        mu_p == Dot(weights, o.mu_bl)
        sigma_p2 == Quad(weights, o.S)
    IN  [NoRet EXCEPT !.call = "BlackLittermanOptimizer.compute_portfolio",
                      !.weights = weights, !.mu_p = mu_p, !.sigma_p2 = sigma_p2,
                      !.ratio = IF sigma_p2 # Zero THEN RDiv(mu_p, sigma_p2) ELSE Inf]

\* __init__: np.linalg.inv in _compute_bl_returns is not guarded, its LinAlgError
\* leaves the constructor as it is
BLConstruct ==
    /\ NoCallYet
    /\ \E P \in Picks(Len(mu)), tau \in BLTaus :
         \E Q \in Views(Len(P)), Omega \in Omegas(Len(P)) :
            LET o == BLFields(mu, S, P, Q, Omega, tau)
            IN  IF Invertible(BLMiddle(o))
                THEN /\ opt' = [o EXCEPT !.mu_bl = BLReturns(o)]
                     /\ ret' = [NoRet EXCEPT !.call = "BlackLittermanOptimizer.__init__",
                                             !.arg = Omega]
                ELSE /\ opt' = NoOpt
                     /\ ret' = Raise("BlackLittermanOptimizer.__init__", "LinAlgError",
                                     "Singular matrix", Omega)
    /\ UNCHANGED <<mu, S, request, prices, series, service>>

\* compute_portfolio normalising self.mu_bl in place instead of a new array
BLComputePortfolioInPlace ==
    /\ opt.cls = "BlackLittermanOptimizer"
    /\ IF Invertible(opt.S)
       THEN /\ ret' = BLPortfolio(opt)
            /\ opt' = [opt EXCEPT !.mu_bl = Normalize(opt.mu_bl)]
       ELSE /\ ret' = Raise("BlackLittermanOptimizer.compute_portfolio", "ValueError",
                            "Covariance matrix is not invertible.", None)
            /\ opt' = opt
    /\ UNCHANGED <<mu, S, request, prices, series, service>>

BLComputePortfolio ==
    /\ opt.cls = "BlackLittermanOptimizer"
    /\ ret' = IF Invertible(opt.S)
              THEN BLPortfolio(opt)
              ELSE Raise("BlackLittermanOptimizer.compute_portfolio", "ValueError",
                         "Covariance matrix is not invertible.", None)
    /\ UNCHANGED <<mu, S, opt, request, prices, series, service>>

\* find_optimal_portfolio(enforce_positive_weights): compute_portfolio's
\* result as a dictionary, with a warning printed for negative weights
BLFindOptimalPortfolio ==
    /\ opt.cls = "BlackLittermanOptimizer"
    /\ ret.call # "BlackLittermanOptimizer.find_optimal_portfolio"
    /\ \E enforce \in BOOLEAN :
          LET call == "BlackLittermanOptimizer.find_optimal_portfolio"
              arg == [enforce_positive_weights |-> enforce]
          IN  ret' = IF Invertible(opt.S)
                     THEN [BLPortfolio(opt) EXCEPT !.call = call, !.arg = arg]
                     ELSE Raise(call, "ValueError",
                                "Covariance matrix is not invertible.", arg)
    /\ UNCHANGED <<mu, S, opt, request, prices, series, service>>

(***************************************************************************)
(* scipy.optimize.minimize with bounds and one equality constraint (SLSQP) *)
(* on the convex quadratic w @ S @ w.  On success the solver returns a     *)
(* Karush-Kuhn-Tucker point of the problem; for a positive semi-definite S *)
(* those are exactly the constrained minimisers.  They are computed here   *)
(* by enumerating the active sets: each weight is at its lower bound, at   *)
(* its upper bound, or free, and the free weights solve the stationarity   *)
(* equations (S w)_i = lambda together with sum(w) = 1.                    *)
(***************************************************************************)
\* active-set assignments of n weights
ActiveSets(n) ==
    CASE n = 2 -> {"lo", "free", "hi"} \X {"lo", "free", "hi"}
      [] n = 3 -> {"lo", "free", "hi"} \X {"lo", "free", "hi"} \X {"lo", "free", "hi"}

\* the linear system in (w_1..w_n, lambda) of one active set
KKTMatrix(C, act) ==
    LET n == Len(C)
    IN  MkVec(n + 1, [i \in 1..(n + 1) |-> MkVec(n + 1, [j \in 1..(n + 1) |->
            IF i = n + 1 THEN (IF j = n + 1 THEN Zero ELSE One)
            ELSE IF act[i] = "free" THEN (IF j = n + 1 THEN RNeg(One) ELSE C[i][j])
            ELSE (IF j = i THEN One ELSE Zero)])])

KKTRhs(n, act, lo, hi) ==
    MkVec(n + 1, [i \in 1..(n + 1) |->
        IF i = n + 1 THEN One
        ELSE IF act[i] = "lo" THEN lo ELSE IF act[i] = "hi" THEN hi ELSE Zero])

\* the weights the active set determines, when it determines them
ActiveSetPoint(C, act, lo, hi) ==
    LET M == KKTMatrix(C, act)
        x == MatVec(Inverse(M), KKTRhs(Len(C), act, lo, hi))
    IN  MkVec(Len(C), [i \in 1..Len(C) |-> x[i]])

\* bounds and the constraint np.sum(w) - 1 = 0
Feasible(w, lo, hi) ==
    /\ \A i \in Len1(w) : RLe(lo, w[i]) /\ RLe(w[i], hi)
    /\ VSum(w) = One

\* first-order optimality of a maximum in place of a minimum
StationaryMax(w, g, lo, hi) ==
    \A i \in Len1(w), j \in Len1(w) :
        (RLt(lo, w[i]) /\ RLt(w[j], hi)) => RLe(g[j], g[i])

\* first-order optimality of w for a gradient g: one multiplier lambda of the
\* constraint with g_i <= lambda where w_i can decrease and g_j >= lambda where
\* w_j can increase
Stationary(w, g, lo, hi) ==
    \A i \in Len1(w), j \in Len1(w) :
        (RLt(lo, w[i]) /\ RLt(w[j], hi)) => RLe(g[i], g[j])

\* np.ones(N) / N
EqualWeights(n) ==
    MkVec(n, [i \in 1..n |-> <<1, n>>])

\* result.x of a successful minimize(portfolio_variance, initial_weights, ...)
MinVarSolutions(C, lo, hi) ==
    LET n == Len(C)
        cands == {ActiveSetPoint(C, act, lo, hi) :
                     act \in {a \in ActiveSets(n) : Invertible(KKTMatrix(C, a))}}
                 \cup {EqualWeights(n)}
    IN  {w \in cands : Feasible(w, lo, hi) /\ Stationary(w, MatVec(C, w), lo, hi)}

(***************************************************************************)
(* MinimumVarianceOptimizer.                                               *)
(***************************************************************************)
MinVarConstruct ==
    /\ NoCallYet
    /\ opt' = [NoOpt EXCEPT !.cls = "MinimumVarianceOptimizer", !.S = S]
    /\ ret' = [NoRet EXCEPT !.call = "MinimumVarianceOptimizer.__init__"]
    /\ UNCHANGED <<mu, S, request, prices, series, service>>

\* compute_portfolio returning initial_weights in place of result.x
MinVarPortfolioInitial(o, allow_short, x) ==
    [NoRet EXCEPT !.call = "MinimumVarianceOptimizer.compute_portfolio",
                  !.arg = allow_short, !.weights = EqualWeights(Len(o.S)),
                  !.sigma_p2 = Quad(EqualWeights(Len(o.S)), o.S)]

\* (weights, sigma_p2) of compute_portfolio for the solver's result.x
MinVarPortfolio(o, allow_short, x) ==
    [NoRet EXCEPT !.call = "MinimumVarianceOptimizer.compute_portfolio",
                  !.arg = allow_short, !.weights = x, !.sigma_p2 = Quad(x, o.S)]

\* bounds of compute_portfolio
LowerBound(allow_short) ==
    IF allow_short THEN RNeg(One) ELSE Zero

MinVarComputePortfolio ==
    /\ opt.cls = "MinimumVarianceOptimizer"
    /\ ret.call = "MinimumVarianceOptimizer.__init__"
    /\ \E allow_short \in BOOLEAN :
          \/ ret' = [Raise("MinimumVarianceOptimizer.compute_portfolio", "ValueError",
                           "Minimum variance optimization failed to converge.",
                           allow_short) EXCEPT !.success = FALSE]
          \/ \E x \in MinVarSolutions(opt.S, LowerBound(allow_short), One) :
                ret' = [MinVarPortfolio(opt, allow_short, x) EXCEPT !.success = TRUE]
    /\ UNCHANGED <<mu, S, opt, request, prices, series, service>>

(***************************************************************************)
(* MaximumSharpeRatioOptimizer.  The objective is                          *)
(* -(w @ mu - rf) / sqrt(w @ S @ w); a Sharpe ratio is kept as the pair    *)
(* [num, var] that stands for num / sqrt(var).                             *)
(***************************************************************************)
RiskFreeRates ==
    {Zero, One}

SqrtQuotient(num, var) ==
    [num |-> num, var |-> var]

\* whether num / sqrt(var) is a finite float
QuotientFinite(q) ==
    IsFinite(q.num) /\ IsFinite(q.var) /\ ~IsZero(q.var)

\* sub-vector and sub-matrix on the index tuple F
SubVec(v, F) ==
    MkVec(Len(F), [i \in 1..Len(F) |-> v[F[i]]])

SubMat(M, F) ==
    MkVec(Len(F), [i \in 1..Len(F) |-> MkVec(Len(F), [j \in 1..Len(F) |-> M[F[i]][F[j]]])])

\* index of k in the tuple F, 0 when absent
PosIn(F, k) ==
    IF \E i \in Len1(F) : F[i] = k THEN CHOOSE i \in Len1(F) : F[i] = k ELSE 0

\* the vector of length n equal to x on F and 0 elsewhere
Embed(x, F, n) ==
    MkVec(n, [k \in 1..n |-> IF PosIn(F, k) = 0 THEN Zero ELSE x[PosIn(F, k)]])

\* the supports of a weight vector of length n
Supports(n) ==
    CASE n = 2 -> {<<1>>, <<2>>, <<1, 2>>}
      [] n = 3 -> {<<1>>, <<2>>, <<3>>, <<1, 2>>, <<1, 3>>, <<2, 3>>, <<1, 2, 3>>}

\* gradient of the objective up to the positive factor (w @ S @ w)^(3/2)
SharpeGradient(w, m, C, rf) ==
    VSub(VScale(RSub(Dot(w, m), rf), MatVec(C, w)),
         VScale(Quad(w, C), VSub(m, VScale(rf, Ones(Len(m))))))

\* the tangency portfolio of the assets in F: inv(S_FF) (mu_F - rf), normalised
TangencyPoint(m, C, rf, F) ==
    LET x == MatVec(Inverse(SubMat(C, F)), VSub(SubVec(m, F), VScale(rf, Ones(Len(F)))))
        s == VSum(x)
    IN  Embed(MkVec(Len(F), [i \in 1..Len(F) |-> RDiv(x[i], s)]), F, Len(m))

\* result.x of a successful minimize(sharpe_ratio, initial_weights, ...): a
\* Karush-Kuhn-Tucker point with a finite objective; when the objective is not
\* finite at the initial point (zero volatility) the solver cannot move from it
MaxSharpeSolutions(m, C, rf) ==
    LET n == Len(m)
        x0 == EqualWeights(n)
        cands == {TangencyPoint(m, C, rf, F) :
                     F \in {G \in Supports(n) : Invertible(SubMat(C, G))}}
                 \cup {x0}
    IN  IF IsZero(Quad(x0, C)) THEN {x0}
        ELSE {w \in cands : /\ \A i \in Len1(w) : IsFinite(w[i])
                            /\ Feasible(w, Zero, One)
                            /\ ~IsZero(Quad(w, C))
                            /\ Stationary(w, SharpeGradient(w, m, C, rf), Zero, One)}

MaxSharpeConstruct ==
    /\ NoCallYet
    /\ \E rf \in RiskFreeRates :
          opt' = [NoOpt EXCEPT !.cls = "MaximumSharpeRatioOptimizer", !.mu = mu, !.S = S,
                               !.rf = rf]
    /\ ret' = [NoRet EXCEPT !.call = "MaximumSharpeRatioOptimizer.__init__"]
    /\ UNCHANGED <<mu, S, request, prices, series, service>>

\* (weights, mu_p, sigma_p**2, sharpe_ratio_value) for the solver's result.x
MaxSharpePortfolio(o, x) ==
    LET mu_p == Dot(x, o.mu)
        var == Quad(x, o.S)
    IN  [NoRet EXCEPT !.call = "MaximumSharpeRatioOptimizer.compute_portfolio",
                      !.weights = x, !.mu_p = mu_p, !.sigma_p2 = var,
                      !.ratio = SqrtQuotient(RSub(mu_p, o.rf), var)]

MaxSharpeComputePortfolio ==
    /\ opt.cls = "MaximumSharpeRatioOptimizer"
    /\ ret.call = "MaximumSharpeRatioOptimizer.__init__"
    /\ \/ ret' = [Raise("MaximumSharpeRatioOptimizer.compute_portfolio", "ValueError",
                        "Maximum Sharpe ratio optimization failed to converge.",
                        None) EXCEPT !.success = FALSE]
       \/ \E x \in MaxSharpeSolutions(opt.mu, opt.S, opt.rf) :
             ret' = [MaxSharpePortfolio(opt, x) EXCEPT !.success = TRUE]
    /\ UNCHANGED <<mu, S, opt, request, prices, series, service>>

(***************************************************************************)
(* RiskParityOptimizer.  With c_i = w_i (S w)_i and var = w @ S @ w the    *)
(* risk contributions are rc_i = c_i / sqrt(var), so the objective         *)
(* sum((rc - mean(rc))**2) equals sum((c - mean(c))**2) / var.  Risk       *)
(* contributions are kept as the pair [num, var] that stands for           *)
(* num / sqrt(var).                                                        *)
(***************************************************************************)
\* the solver searches the weights in integer ratios k_1 : ... : k_n, k_i <= GridRatio
GridRatio ==
    6

\* the contributions taken as the weights alone, without marginal_contrib
RiskNumeratorsWeightsOnly(w, C) ==
    w

\* weights * marginal_contrib of _risk_contribution, before the division
RiskNumerators(w, C) ==
    LET marginal_contrib == MatVec(C, w)
    IN  MkVec(Len(w), [i \in 1..Len(w) |-> RMul(w[i], marginal_contrib[i])])

\* _risk_contribution
RiskContribution(w, C) ==
    SqrtQuotient(RiskNumerators(w, C), Quad(w, C))

\* _objective: the deviations rc - target are dev / sqrt(var), and the value
\* np.sum((rc - target)**2) is kept as the pair [dev, var] that stands for
\* sum(dev**2) / var
RPObjective(w, C) ==
    LET c == RiskNumerators(w, C)
        target == RDiv(VSum(c), R(Len(w)))
    IN  [dev |-> MkVec(Len(w), [i \in 1..Len(w) |-> RSub(c[i], target)]), var |-> Quad(w, C)]

\* the objective value is 0
ObjectiveIsZero(f) ==
    ~IsZero(f.var) /\ \A i \in Len1(f.dev) : f.dev[i] = Zero

\* the objective value f is at most the objective value g
ObjectiveLe(f, g) ==
    RLe(RDiv(Dot(f.dev, f.dev), f.var), RDiv(Dot(g.dev, g.dev), g.var))

Grid(n) ==
    LET ks == CASE n = 2 -> (0..GridRatio) \X (0..GridRatio)
                [] n = 3 -> (0..GridRatio) \X (0..GridRatio) \X (0..GridRatio)
    IN  {Normalize(MkVec(n, [i \in 1..n |-> R(k[i])])) : k \in {q \in ks : \E i \in 1..n : q[i] # 0}}

\* result.x of a successful minimize(self._objective, initial_weights, ...): a
\* feasible point where the objective is least; the objective is a sum of
\* squares, so where it reaches 0 the minimisers are its zeros; where it is not
\* finite at the initial point (zero volatility) the solver cannot move from it
RPSolutions(C) ==
    LET n == Len(C)
        x0 == EqualWeights(n)
        G == {w \in Grid(n) : ~IsZero(Quad(w, C))}
        zeros == {w \in G : ObjectiveIsZero(RPObjective(w, C))}
    IN  IF IsZero(Quad(x0, C)) THEN {x0}
        ELSE IF zeros # {} THEN zeros
        ELSE {w \in G : \A u \in G : ObjectiveLe(RPObjective(w, C), RPObjective(u, C))}

RiskParityConstruct ==
    /\ NoCallYet
    /\ opt' = [NoOpt EXCEPT !.cls = "RiskParityOptimizer", !.S = S]
    /\ ret' = [NoRet EXCEPT !.call = "RiskParityOptimizer.__init__"]
    /\ UNCHANGED <<mu, S, request, prices, series, service>>

\* (weights, sigma_p2, risk_contrib) for the solver's result.x
RiskParityPortfolio(o, x) ==
    [NoRet EXCEPT !.call = "RiskParityOptimizer.compute_portfolio", !.weights = x,
                  !.sigma_p2 = Quad(x, o.S), !.risk_contrib = RiskContribution(x, o.S)]

\* compute_portfolio without the check of result.success: result.x, here the
\* initial weights, is returned for a failed solve too
RiskParityComputePortfolioUnchecked ==
    /\ opt.cls = "RiskParityOptimizer"
    /\ ret.call = "RiskParityOptimizer.__init__"
    /\ \/ ret' = [RiskParityPortfolio(opt, EqualWeights(Len(opt.S)))
                      EXCEPT !.success = FALSE]
       \/ \E x \in RPSolutions(opt.S) :
             ret' = [RiskParityPortfolio(opt, x) EXCEPT !.success = TRUE]
    /\ UNCHANGED <<mu, S, opt, request, prices, series, service>>

RiskParityComputePortfolio ==
    /\ opt.cls = "RiskParityOptimizer"
    /\ ret.call = "RiskParityOptimizer.__init__"
    /\ \/ ret' = [Raise("RiskParityOptimizer.compute_portfolio", "ValueError",
                        "Risk parity optimization failed to converge.",
                        None) EXCEPT !.success = FALSE]
       \/ \E x \in RPSolutions(opt.S) :
             ret' = [RiskParityPortfolio(opt, x) EXCEPT !.success = TRUE]
    /\ UNCHANGED <<mu, S, opt, request, prices, series, service>>

(***************************************************************************)
(* Price tables and return statistics (pandas).  A table is a DataFrame    *)
(* of closing prices: its column labels in the order the data source       *)
(* delivers them, and its rows by date; a null cell is nan.                *)
(***************************************************************************)
MaxRows ==
    4

PriceLevels ==
    {1, 2}

\* the cells of a row, a null (nan) included when withNull
Cells(withNull) ==
    {R(p) : p \in PriceLevels} \cup (IF withNull THEN {NaN} ELSE {})

\* the rows of k cells
RowsOf(k, withNull) ==
    CASE k = 1 -> {<<c>> : c \in Cells(withNull)}
      [] k = 2 -> {<<c, d>> : c \in Cells(withNull), d \in Cells(withNull)}

\* the sequences of n rows of k cells
RECURSIVE RowSeqs(_, _, _)
RowSeqs(n, k, withNull) ==
    IF n = 0 THEN {<<>>}
    ELSE {Append(s, r) : s \in RowSeqs(n - 1, k, withNull), r \in RowsOf(k, withNull)}

\* the orders in which the data source may deliver the columns of the tickers
ColumnOrders(tickers) ==
    CASE Len(tickers) = 1 -> {tickers}
      [] Len(tickers) = 2 -> {tickers, <<tickers[2], tickers[1]>>}

\* what yf.download(tickers, ...)['Close'] may hold: up to MaxRows rows of
\* prices, the tables of at most two rows with nulls too
Tables(tickers) ==
    {[columns |-> cols, rows |-> rows] :
        cols \in ColumnOrders(tickers),
        rows \in UNION {RowSeqs(n, Len(tickers), n <= 2) : n \in 0..MaxRows}}

\* DataFrame.empty
IsEmpty(table) ==
    Len(table.rows) = 0 \/ Len(table.columns) = 0

\* prices.isnull().any().any()
HasNull(table) ==
    \E t \in Len1(table.rows) : \E j \in Len1(table.rows[t]) : IsNaN(table.rows[t][j])

\* the series of column j of the rows from row t on
RECURSIVE ColumnFrom(_, _, _)
ColumnFrom(rows, j, t) ==
    IF t > Len(rows) THEN <<>> ELSE <<rows[t][j]>> \o ColumnFrom(rows, j, t + 1)

\* rows t.. of prices.pct_change(): row t holds P_t / P_(t-1) - 1
RECURSIVE PctChangeFrom(_, _)
PctChangeFrom(rows, t) ==
    IF t > Len(rows) THEN <<>>
    ELSE <<MkVec(Len(rows[t]),
                 [j \in 1..Len(rows[t]) |-> RSub(RDiv(rows[t][j], rows[t - 1][j]), One)])>>
         \o PctChangeFrom(rows, t + 1)

\* dropna that treats infinite values as missing too
RECURSIVE DropNonFiniteRows(_)
DropNonFiniteRows(rows) ==
    IF rows = <<>> THEN <<>>
    ELSE (IF \E j \in Len1(Head(rows)) : ~IsFinite(Head(rows)[j]) THEN <<>>
          ELSE <<Head(rows)>>)
         \o DropNonFiniteRows(Tail(rows))

\* the rows without a nan (DataFrame.dropna, Series.dropna)
RECURSIVE DropNaRows(_)
DropNaRows(rows) ==
    IF rows = <<>> THEN <<>>
    ELSE (IF \E j \in Len1(Head(rows)) : IsNaN(Head(rows)[j]) THEN <<>> ELSE <<Head(rows)>>)
         \o DropNaRows(Tail(rows))

RECURSIVE DropNa(_)
DropNa(s) ==
    IF s = <<>> THEN <<>>
    ELSE (IF IsNaN(Head(s)) THEN <<>> ELSE <<Head(s)>>) \o DropNa(Tail(s))

\* compute_historical_returns(prices) without the check for missing values
ComputeHistoricalReturnsUnchecked(table) ==
    [raised |-> "none", msg |-> "",
     returns |-> [columns |-> table.columns,
                  rows |-> IF Len(table.rows) = 0 THEN <<>>
                           ELSE DropNaRows(PctChangeFrom(table.rows, 2))]]

\* compute_historical_returns(prices) of a table with a DatetimeIndex
ComputeHistoricalReturns(table) ==
    IF HasNull(table)
    THEN [raised |-> "ValueError", msg |-> "Price data contains missing values.",
          returns |-> None]
    ELSE [raised |-> "none", msg |-> "",
          returns |-> [columns |-> table.columns,
                       rows |-> IF Len(table.rows) = 0 THEN <<>>
                                ELSE DropNaRows(PctChangeFrom(table.rows, 2))]]

\* Series.mean(): nan for an empty series
Mean(s) ==
    RDiv(SumTo(s, Len(s)), R(Len(s)))

\* sum of (u - c)(v - d) over the first k entries
RECURSIVE SumDev(_, _, _, _, _)
SumDev(u, c, v, d, k) ==
    IF k = 0 THEN Zero
    ELSE RAdd(SumDev(u, c, v, d, k - 1), RMul(RSub(u[k], c), RSub(v[k], d)))

\* the sample covariance of two series (ddof = 1): nan below two observations
Covariance(u, v) ==
    IF Len(u) < 2 THEN NaN
    ELSE RDiv(SumDev(u, Mean(u), v, Mean(v), Len(u)), R(Len(u) - 1))

\* returns.mean()
ColumnMeans(df) ==
    MkVec(Len(df.columns), [j \in 1..Len(df.columns) |-> Mean(ColumnFrom(df.rows, j, 1))])

\* compute_covariance_matrix(returns): returns.cov()
ComputeCovarianceMatrix(df) ==
    MkVec(Len(df.columns), [i \in 1..Len(df.columns) |->
        MkVec(Len(df.columns), [j \in 1..Len(df.columns) |->
            Covariance(ColumnFrom(df.rows, i, 1), ColumnFrom(df.rows, j, 1))])])

\* frame @ w: the series of the rows' products with the vector w
RECURSIVE FrameDot(_, _)
FrameDot(rows, w) ==
    IF rows = <<>> THEN <<>> ELSE <<Dot(Head(rows), w)>> \o FrameDot(Tail(rows), w)

(***************************************************************************)
(* risk_calculator.py.  A square root is kept as the record [sqrt |-> q]   *)
(* that stands for sqrt(q).                                                *)
(***************************************************************************)
Sqrt(q) ==
    [sqrt |-> q]

\* returns[returns <= target]
RECURSIVE BelowOrAt(_, _)
BelowOrAt(s, target) ==
    IF s = <<>> THEN <<>>
    ELSE (IF RLe(Head(s), target) THEN <<Head(s)>> ELSE <<>>) \o BelowOrAt(Tail(s), target)

\* returns[returns < target]
RECURSIVE Below(_, _)
Below(s, target) ==
    IF s = <<>> THEN <<>>
    ELSE (IF RLt(Head(s), target) THEN <<Head(s)>> ELSE <<>>) \o Below(Tail(s), target)

\* sum of the squares of the first k entries
RECURSIVE SumSq(_, _)
SumSq(s, k) ==
    IF k = 0 THEN Zero ELSE RAdd(SumSq(s, k - 1), RMul(s[k], s[k]))

\* compute_downside_deviation(returns, target)
ComputeDownsideDeviation(returns, target) ==
    LET downside_returns == Below(returns, target)
    IN  IF Len(downside_returns) = 0 THEN Sqrt(Zero)
        ELSE Sqrt(RDiv(SumSq(downside_returns, Len(downside_returns)),
                       R(Len(downside_returns))))

\* max(x, y) of a running maximum x (nan while nothing was seen) and a value y
RMax(x, y) ==
    IF IsNaN(y) THEN x ELSE IF IsNaN(x) \/ RLt(x, y) THEN y ELSE x

\* min(x, y) skipping nan
RMin(x, y) ==
    IF IsNaN(y) THEN x ELSE IF IsNaN(x) \/ RLt(y, x) THEN y ELSE x

\* prices.cummax() up to entry k
RECURSIVE CumMax(_, _)
CumMax(s, k) ==
    IF k = 0 THEN NaN ELSE RMax(CumMax(s, k - 1), s[k])

\* ((prices - rolling_max) / rolling_max)[k]
Drawdown(s, k) ==
    IF IsNaN(s[k]) THEN NaN ELSE RDiv(RSub(s[k], CumMax(s, k)), CumMax(s, k))

\* drawdowns.min() over the first k entries: nan when there is none
RECURSIVE MinDrawdown(_, _)
MinDrawdown(s, k) ==
    IF k = 0 THEN NaN ELSE RMin(MinDrawdown(s, k - 1), Drawdown(s, k))

\* compute_max_drawdown(prices)
ComputeMaxDrawdown(s) ==
    MinDrawdown(s, Len(s))

(***************************************************************************)
(* MeanVarianceOptimizer: the pipeline from a request to a report.         *)
(***************************************************************************)
AnnualizationFactor ==
    252

\* risk_free_rate = 0.02
RiskFreeRate ==
    <<1, 50>>

DateStrings ==
    {"2024-01-01", "2024-03-01", "03/01/2024"}

\* datetime.strptime(s, '%Y-%m-%d'): the day of the year 2024, or a ValueError
Strptime(s) ==
    CASE s = "2024-01-01" -> [ok |-> TRUE, day |-> 1]
      [] s = "2024-03-01" -> [ok |-> TRUE, day |-> 61]
      [] OTHER -> [ok |-> FALSE, day |-> 0]

ReturnModels ==
    {"historical_returns", "simple", "log", "geometric"}

\* every list element is kept as a string; this one stands for an element
\* that is not a str object
NotAString ==
    "<int>"

\* isinstance(t, str)
IsStr(t) ==
    t # NotAString

TickerLists ==
    {<<>>, <<"A">>, <<"A", "B">>, <<"B", "A">>, <<"A", NotAString>>}

RequestTaus ==
    {R(-1), Zero, R(4)}

Requests ==
    [tickers : TickerLists, start_date : DateStrings, end_date : DateStrings,
     tau : RequestTaus, return_model : ReturnModels]

\* the outcome of a constructor or of a helper: an exception or an object,
\* and the calls it made to get there, in order
Failed(msg) ==
    [raised |-> "ValueError", msg |-> msg, obj |-> None, calls |-> <<>>]

\* the outcome r reached after the calls made before it
After(calls, r) ==
    [r EXCEPT !.calls = calls \o @]

\* the checks of __init__ without the one on tau
MVOValidateNoTau(tickers, start_date, end_date, tau, return_model) ==
    IF Len(tickers) = 0 THEN "Tickers must be a non-empty list"
    ELSE IF \E i \in Len1(tickers) : ~IsStr(tickers[i])
         THEN "All tickers must be strings"
    ELSE IF ~start_date.ok \/ ~end_date.ok
         THEN "Start and end dates must be datetime objects"
    ELSE IF start_date.day >= end_date.day
         THEN "Start date must be earlier than end date"
    ELSE IF return_model # "historical_returns"
         THEN "Only 'historical_returns' is supported for now"
    ELSE ""

\* the checks at the head of MeanVarianceOptimizer.__init__; "" when all pass.
\* A date argument is a datetime object exactly when it is a parsed date.
MVOValidate(tickers, start_date, end_date, tau, return_model) ==
    IF Len(tickers) = 0 THEN "Tickers must be a non-empty list"
    ELSE IF \E i \in Len1(tickers) : ~IsStr(tickers[i])
         THEN "All tickers must be strings"
    ELSE IF ~start_date.ok \/ ~end_date.ok
         THEN "Start and end dates must be datetime objects"
    ELSE IF start_date.day >= end_date.day
         THEN "Start date must be earlier than end date"
    ELSE IF RLt(tau, Zero) THEN "Risk tolerance tau must be non-negative"
    ELSE IF return_model # "historical_returns"
         THEN "Only 'historical_returns' is supported for now"
    ELSE ""

\* _fetch_data(): the table of the data source, or the error for an empty one
\* (the message is "Data fetching failed: " followed by the fetcher's own)
FetchData(table) ==
    IF IsEmpty(table) THEN Failed("Data fetching failed") ELSE
    [raised |-> "none", msg |-> "", obj |-> table, calls |-> <<>>]

\* __init__ from the fetch on, for arguments that passed the checks.  For a
\* covariance matrix with nan entries np.linalg.inv either raises or yields
\* nan, depending on the LAPACK build (nan_raises).
MVOFit(tickers, tau, table, nan_raises) ==
    LET hist == ComputeHistoricalReturns(table)
        returns == hist.returns
        m == ColumnMeans(returns)
        C == ComputeCovarianceMatrix(returns)
        has_nan == \E i \in Len1(C) : \E j \in Len1(C) : IsNaN(C[i][j])
        optimizer == MVInit(m, C)
        p == MVPortfolio(optimizer, tau)
    IN  IF hist.raised # "none"
        THEN After(<<"compute_historical_returns">>, Failed(hist.msg))
        ELSE IF (has_nan /\ nan_raises) \/ (~has_nan /\ ~Invertible(C))
             THEN After(<<"compute_historical_returns", "compute_covariance_matrix",
                          "Mean_variance_optimizer">>,
                        Failed("Covariance matrix is not invertible."))
        ELSE [raised |-> "none", msg |-> "",
              calls |-> <<"compute_historical_returns", "compute_covariance_matrix",
                          "Mean_variance_optimizer", "compute_portfolio">>,
              obj |-> [cls |-> "MeanVarianceOptimizer", tickers |-> tickers, tau |-> tau,
                       prices |-> table, returns |-> returns, mu |-> m, S |-> C,
                       optimizer |-> optimizer, weights |-> p.weights,
                       expected_return |-> p.mu_p, variance |-> p.sigma_p2,
                       portfolio_returns |-> DropNa(FrameDot(returns.rows, p.weights))]]

\* the constructor fetching the data before it checks its arguments
MVOInitFetchFirst(tickers, start_date, end_date, tau, return_model, table, nan_raises) ==
    LET invalid == MVOValidate(tickers, start_date, end_date, tau, return_model)
        fetched == IF table = None THEN Failed("Data fetching failed")
                   ELSE FetchData(table)
    IN  IF fetched.raised # "none" THEN After(<<"_fetch_data">>, fetched)
        ELSE IF invalid # "" THEN After(<<"_fetch_data">>, Failed(invalid))
        ELSE After(<<"_fetch_data">>, MVOFit(tickers, tau, fetched.obj, nan_raises))

\* MeanVarianceOptimizer(tickers, start_date, end_date, tau, return_model)
MVOInit(tickers, start_date, end_date, tau, return_model, table, nan_raises) ==
    LET invalid == MVOValidate(tickers, start_date, end_date, tau, return_model)
        fetched == FetchData(table)
    IN  IF invalid # "" THEN Failed(invalid)
        ELSE IF fetched.raised # "none" THEN After(<<"_fetch_data">>, fetched)
        ELSE After(<<"_fetch_data">>, MVOFit(tickers, tau, fetched.obj, nan_raises))

\* round(x, 2) in units of 1e-2, ties to even; nan stays nan
Round2(x) ==
    IF ~IsFinite(x) THEN x
    ELSE LET n == 100 * x[1]
             q == n \div x[2]
             r2 == 2 * (n % x[2])
         IN  R(IF r2 > x[2] \/ (r2 = x[2] /\ q % 2 = 1) THEN q + 1 ELSE q)

\* generate_report() dividing by the downside deviation without the zero check
GenerateReportUnguarded(o) ==
    LET annualized_return == RMul(o.expected_return, R(AnnualizationFactor))
        annualized_variance == RMul(o.variance, R(AnnualizationFactor))
        annualized_excess_return == RSub(annualized_return, RiskFreeRate)
        downside_deviation == ComputeDownsideDeviation(o.portfolio_returns, Zero)
        annualized_downside2 == RMul(downside_deviation.sqrt, R(AnnualizationFactor))
        portfolio_prices == DropNa(FrameDot(o.prices.rows, o.weights))
        max_drawdown == ComputeMaxDrawdown(portfolio_prices)
    IN  [weights |-> MkVec(Len(o.tickers), [i \in 1..Len(o.tickers) |->
                        <<o.tickers[i], Round2(RMul(o.weights[i], R(100)))>>]),
         expectedReturn |-> Round2(RMul(annualized_return, R(100))),
         risk |-> Sqrt(annualized_variance),
         sharpeRatio |-> IF ~IsZero(annualized_variance)
                         THEN SqrtQuotient(annualized_excess_return, annualized_variance)
                         ELSE SqrtQuotient(Zero, One),
         sortinoRatio |-> SqrtQuotient(annualized_excess_return, annualized_downside2),
         maxDrawdown |-> Round2(RMul(max_drawdown, R(100)))]

\* generate_report() of a constructed object.  weights pairs ticker i of the
\* request with entry i of the weight vector (zip); percentages are in units
\* of 1e-2; risk and the two ratios are given before rounding.
GenerateReport(o) ==
    LET annualized_return == RMul(o.expected_return, R(AnnualizationFactor))
        annualized_variance == RMul(o.variance, R(AnnualizationFactor))
        annualized_excess_return == RSub(annualized_return, RiskFreeRate)
        downside_deviation == ComputeDownsideDeviation(o.portfolio_returns, Zero)
        annualized_downside2 == RMul(downside_deviation.sqrt, R(AnnualizationFactor))
        portfolio_prices == DropNa(FrameDot(o.prices.rows, o.weights))
        max_drawdown == ComputeMaxDrawdown(portfolio_prices)
    IN  [weights |-> MkVec(Len(o.tickers), [i \in 1..Len(o.tickers) |->
                        <<o.tickers[i], Round2(RMul(o.weights[i], R(100)))>>]),
         expectedReturn |-> Round2(RMul(annualized_return, R(100))),
         risk |-> Sqrt(annualized_variance),
         sharpeRatio |-> IF ~IsZero(annualized_variance)
                         THEN SqrtQuotient(annualized_excess_return, annualized_variance)
                         ELSE SqrtQuotient(Zero, One),
         sortinoRatio |-> IF ~IsZero(annualized_downside2)
                          THEN SqrtQuotient(annualized_excess_return, annualized_downside2)
                          ELSE SqrtQuotient(Zero, One),
         maxDrawdown |-> Round2(RMul(max_drawdown, R(100)))]

Init ==
    /\ \E in \in Inputs : mu = in.mu /\ S = in.S
    /\ opt = NoOpt
    /\ ret = NoRet
    /\ request = None /\ prices = None /\ series = None /\ service = None

Next ==
    \/ MVConstruct
    \/ MVComputePortfolio
    \/ MVFindOptimalPortfolio
    \/ BLConstruct
    \/ BLComputePortfolio
    \/ BLFindOptimalPortfolio
    \/ MinVarConstruct
    \/ MinVarComputePortfolio
    \/ MaxSharpeConstruct
    \/ MaxSharpeComputePortfolio
    \/ RiskParityConstruct
    \/ RiskParityComputePortfolio

Spec ==
    Init /\ [][Next]_vars

(***************************************************************************)
(* The worked scenarios of the specification run through the optimizers    *)
(* they name, next to the bounded inputs.                                  *)
(***************************************************************************)
ScenarioInit ==
    /\ \E in \in Inputs \cup ScenarioInputs : mu = in.mu /\ S = in.S
    /\ opt = NoOpt
    /\ ret = NoRet
    /\ request = None /\ prices = None /\ series = None /\ service = None

ScenarioNext ==
    \/ MVConstruct
    \/ MVComputePortfolio
    \/ MinVarConstruct
    \/ MinVarComputePortfolio
    \/ RiskParityConstruct
    \/ RiskParityComputePortfolio

ScenarioSpec ==
    ScenarioInit /\ [][ScenarioNext]_vars

\* a direct construction MeanVarianceOptimizer(...) from the request, the
\* dates passed as datetime objects when they parse and as given otherwise
MVOConstruct ==
    /\ NoCallYet
    /\ request # None
    /\ \E nan_raises \in BOOLEAN :
          LET r == MVOInit(request.tickers, Strptime(request.start_date),
                           Strptime(request.end_date), request.tau,
                           request.return_model, prices, nan_raises)
          IN  IF r.raised = "none"
              THEN /\ opt' = r.obj
                   /\ ret' = [NoRet EXCEPT !.call = "MeanVarianceOptimizer.__init__",
                                           !.arg = request.tau,
                                           !.weights = r.obj.weights,
                                           !.calls = r.calls]
              ELSE /\ opt' = NoOpt
                   /\ ret' = [Raise("MeanVarianceOptimizer.__init__", r.raised, r.msg,
                                    request.tau) EXCEPT !.calls = r.calls]
    /\ UNCHANGED <<mu, S, request, prices, series, service>>

MVOGenerateReport ==
    /\ opt.cls = "MeanVarianceOptimizer"
    /\ ret' = [NoRet EXCEPT !.call = "MeanVarianceOptimizer.generate_report",
                            !.arg = opt.tau, !.weights = opt.weights,
                            !.value = GenerateReport(opt)]
    /\ UNCHANGED <<mu, S, opt, request, prices, series, service>>

\* compute_portfolio(tau) called on the analytic optimizer the object holds
MVOComputePortfolio ==
    /\ opt.cls = "MeanVarianceOptimizer"
    /\ \E tau \in RequestTaus :
          ret' = IF RLt(tau, Zero)
                 THEN Raise("Mean_variance_optimizer.compute_portfolio", "ValueError",
                            "Risk tolerance tau must be non-negative.", tau)
                 ELSE MVPortfolio(opt.optimizer, tau)
    /\ UNCHANGED <<mu, S, opt, request, prices, series, service>>

\* the checks of optimize_portfolio before the construction; "" when all pass
RouteValidate(req) ==
    IF RLt(req.tau, Zero) THEN "Risk tolerance tau must be non-negative"
    ELSE IF req.return_model \notin {"simple", "log"}
         THEN "return_model must be 'simple' or 'log'"
    ELSE IF ~Strptime(req.start_date).ok \/ ~Strptime(req.end_date).ok
         THEN "Dates must be in YYYY-MM-DD format"
    ELSE IF Strptime(req.start_date).day >= Strptime(req.end_date).day
         THEN "Start date must be earlier than end date"
    ELSE IF Len(req.tickers) = 0 THEN "Tickers must be a non-empty list of strings"
    ELSE ""

\* the response of POST /optimizer/mean-variance: a ValueError becomes a 400
\* with the message as detail, a report is returned with status 200
HttpError(status, detail, arg) ==
    [Raise("optimize_portfolio", "HTTPException", detail, arg) EXCEPT !.status = status]

OptimizeResponse(req, constructed) ==
    LET invalid == RouteValidate(req)
    IN  IF invalid # "" THEN HttpError(400, invalid, req.tau)
        ELSE IF constructed.raised # "none" THEN HttpError(400, constructed.msg, req.tau)
        ELSE [NoRet EXCEPT !.call = "optimize_portfolio", !.arg = req.tau,
                           !.status = 200, !.weights = constructed.obj.weights,
                           !.value = GenerateReport(constructed.obj)]

\* POST /optimizer/mean-variance; constructed is the outcome the constructor
\* has for the request, used when the route's own checks pass.  The request
\* body is an OptimizeRequest, whose tickers are strings.
OptimizePortfolio ==
    /\ NoCallYet
    /\ request # None
    /\ \A i \in Len1(request.tickers) : IsStr(request.tickers[i])
    /\ \E nan_raises \in BOOLEAN :
          \E constructed \in {MVOInit(request.tickers, Strptime(request.start_date),
                                      Strptime(request.end_date), request.tau,
                                      request.return_model, prices, nan_raises)} :
             ret' = OptimizeResponse(request, constructed)
    /\ UNCHANGED <<mu, S, opt, request, prices, series, service>>

\* the requests that reach the data source when passed to the constructor
ReachesFetch(req) ==
    MVOValidate(req.tickers, Strptime(req.start_date), Strptime(req.end_date),
                req.tau, req.return_model) = ""

\* the table plays no part for a request that is rejected before the fetch
ReportInit ==
    /\ request \in Requests
    /\ prices \in IF Len(request.tickers) = 0 THEN {None}
                  ELSE IF ReachesFetch(request) THEN Tables(request.tickers)
                  ELSE {t \in Tables(request.tickers) : Len(t.rows) = 0}
    /\ mu = None /\ S = None /\ series = None /\ service = None
    /\ opt = NoOpt
    /\ ret = NoRet

ReportNext ==
    \/ MVOConstruct
    \/ MVOGenerateReport
    \/ MVOComputePortfolio
    \/ OptimizePortfolio

ReportSpec ==
    ReportInit /\ [][ReportNext]_vars

(***************************************************************************)
(* The risk utilities called on their own with a bounded series.           *)
(***************************************************************************)
MaxLen ==
    3

SeriesValues ==
    {R(-1), <<-1, 2>>, Zero, <<1, 2>>, One, R(2)}

RECURSIVE SeriesOfLen(_)
SeriesOfLen(n) ==
    IF n = 0 THEN {<<>>}
    ELSE {Append(s, x) : s \in SeriesOfLen(n - 1), x \in SeriesValues}

Targets ==
    {<<-1, 2>>, Zero, One}

CallComputeMaxDrawdown ==
    /\ series # None
    /\ ret' = [NoRet EXCEPT !.call = "compute_max_drawdown",
                            !.value = ComputeMaxDrawdown(series)]
    /\ UNCHANGED <<mu, S, opt, request, prices, series, service>>

CallComputeDownsideDeviation ==
    /\ series # None
    /\ \E target \in Targets :
          ret' = [NoRet EXCEPT !.call = "compute_downside_deviation", !.arg = target,
                               !.value = ComputeDownsideDeviation(series, target)]
    /\ UNCHANGED <<mu, S, opt, request, prices, series, service>>

RiskInit ==
    /\ series \in UNION {SeriesOfLen(n) : n \in 0..MaxLen}
    /\ mu = None /\ S = None /\ request = None /\ prices = None /\ service = None
    /\ opt = NoOpt
    /\ ret = NoRet

RiskNext ==
    \/ CallComputeMaxDrawdown
    \/ CallComputeDownsideDeviation

RiskSpec ==
    RiskInit /\ [][RiskNext]_vars

(***************************************************************************)
(* compute_historical_returns called on a price table of its own: the      *)
(* cells are prices that may be zero, and nulls in the short tables.       *)
(***************************************************************************)
\* the sequences of n rows of k cells drawn from cells
RECURSIVE RowSeqsOver(_, _, _)
RowSeqsOver(n, k, cells) ==
    IF n = 0 THEN {<<>>}
    ELSE {Append(s, r) : s \in RowSeqsOver(n - 1, k, cells),
                         r \in IF k = 1 THEN {<<c>> : c \in cells}
                               ELSE {<<c, d>> : c \in cells, d \in cells}}

PriceTables ==
    {[columns |-> <<"A">>, rows |-> rows] :
        rows \in UNION {RowSeqsOver(n, 1, {Zero, One, R(2)} \cup (IF n <= 2 THEN {NaN} ELSE {}))
                        : n \in 0..MaxRows}}
    \cup
    {[columns |-> <<"A", "B">>, rows |-> rows] :
        rows \in UNION {RowSeqsOver(n, 2, {Zero, One, R(2)}) : n \in 0..(MaxRows - 1)}}

CallComputeHistoricalReturns ==
    /\ prices # None
    /\ ret.call = "none"
    /\ LET r == ComputeHistoricalReturns(prices)
       IN  ret' = IF r.raised = "none"
                  THEN [NoRet EXCEPT !.call = "compute_historical_returns",
                                     !.value = r.returns]
                  ELSE Raise("compute_historical_returns", r.raised, r.msg, None)
    /\ UNCHANGED <<mu, S, opt, request, prices, series, service>>

ReturnsInit ==
    /\ prices \in PriceTables
    /\ mu = None /\ S = None /\ request = None /\ series = None /\ service = None
    /\ opt = NoOpt
    /\ ret = NoRet

ReturnsNext ==
    CallComputeHistoricalReturns

ReturnsSpec ==
    ReturnsInit /\ [][ReturnsNext]_vars

(***************************************************************************)
(* The stock routes (routers/stock_routes.py) mounted under /api.  A path  *)
(* is the tuple of its segments.  The service functions read market data;  *)
(* what each of them does for the request at hand is given by service.     *)
(***************************************************************************)
\* the characters of the strings used as tickers
CharsOf(s) ==
    CASE s = "" -> <<>>
      [] s = "AAPL" -> <<"A", "A", "P", "L">>
      [] s = "GOOGL" -> <<"G", "O", "O", "G", "L">>
      [] s = "A1" -> <<"A", "1">>
      [] s = "aapl" -> <<"a", "a", "p", "l">>
      [] s = "AAPL.NS" -> <<"A", "A", "P", "L", ".", "N", "S">>
      [] s = "ABCDEFGHIJ" -> <<"A", "B", "C", "D", "E", "F", "G", "H", "I", "J">>
      [] s = "ABCDEFGHIJK" -> <<"A", "B", "C", "D", "E", "F", "G", "H", "I", "J", "K">>
      [] s = "AAPL\n" -> <<"A", "A", "P", "L", "\n">>
      [] s = "compare" -> <<"c", "o", "m", "p", "a", "r", "e">>
      [] s = "top-performers" ->
             <<"t", "o", "p", "-", "p", "e", "r", "f", "o", "r", "m", "e", "r", "s">>

TickerInputs ==
    {"", "AAPL", "A1", "aapl", "AAPL.NS", "ABCDEFGHIJ", "ABCDEFGHIJK", "AAPL\n",
     "compare", "top-performers"}

UpperOrDigit ==
    {"A", "B", "C", "D", "E", "F", "G", "H", "I", "J", "K", "L", "M", "N", "O", "P", "Q",
     "R", "S", "T", "U", "V", "W", "X", "Y", "Z",
     "0", "1", "2", "3", "4", "5", "6", "7", "8", "9"}

\* re.match(r"^[A-Z0-9]{1,10}$", ticker) on the characters c; $ also matches
\* before a newline that ends the string
FormatOk(c) ==
    LET n == IF c # <<>> /\ c[Len(c)] = "\n" THEN Len(c) - 1 ELSE Len(c)
    IN  n \in 1..10 /\ \A i \in 1..n : c[i] \in UpperOrDigit

\* ticker.strip() of a ticker that passed the format check
Strip(c) ==
    IF c[Len(c)] = "\n" THEN SubSeq(c, 1, Len(c) - 1) ELSE c

\* validate_ticker(ticker): the stripped ticker, or the HTTPException raised
ValidateTicker(ticker) ==
    IF CharsOf(ticker) = <<>>
    THEN [raised |-> "HTTPException", status |-> 422,
          detail |-> "Ticker must be a non-empty string", ticker |-> None]
    ELSE IF ~FormatOk(CharsOf(ticker))
    THEN [raised |-> "HTTPException", status |-> 422,
          detail |-> "Invalid ticker format. Use uppercase alphanumeric characters (1-10 length)",
          ticker |-> None]
    ELSE [raised |-> "none", status |-> None, detail |-> "",
          ticker |-> Strip(CharsOf(ticker))]

\* the routes with the single-stock route registered first
RoutesTickerFirst ==
    <<[path |-> <<"api", "stock", "{ticker}">>, endpoint |-> "get_single_stock"],
      [path |-> <<"api", "stock", "{ticker}", "info">>, endpoint |-> "get_basic_stock_info"],
      [path |-> <<"api", "stock", "compare">>, endpoint |-> "compare_two_stocks"],
      [path |-> <<"api", "stock", "top-performers">>, endpoint |-> "get_top_performers_route"],
      [path |-> <<"api", "stock", "{ticker}", "today">>, endpoint |-> "get_today_performance"],
      [path |-> <<"api", "stock", "{ticker}", "period">>,
       endpoint |-> "get_fixed_period_performance"],
      [path |-> <<"api", "stock", "{ticker}", "performance">>,
       endpoint |-> "get_performance_metrics"],
      [path |-> <<"api", "stock", "{ticker}", "history">>, endpoint |-> "get_stock_history"],
      [path |-> <<"api", "stock", "{ticker}", "ohlc">>, endpoint |-> "get_stock_ohlc_data"]>>

\* the GET routes of the router in the order of their registration, with the
\* prefix of app.include_router
Routes ==
    <<[path |-> <<"api", "stock", "{ticker}", "info">>, endpoint |-> "get_basic_stock_info"],
      [path |-> <<"api", "stock", "compare">>, endpoint |-> "compare_two_stocks"],
      [path |-> <<"api", "stock", "top-performers">>, endpoint |-> "get_top_performers_route"],
      [path |-> <<"api", "stock", "{ticker}">>, endpoint |-> "get_single_stock"],
      [path |-> <<"api", "stock", "{ticker}", "today">>, endpoint |-> "get_today_performance"],
      [path |-> <<"api", "stock", "{ticker}", "period">>,
       endpoint |-> "get_fixed_period_performance"],
      [path |-> <<"api", "stock", "{ticker}", "performance">>,
       endpoint |-> "get_performance_metrics"],
      [path |-> <<"api", "stock", "{ticker}", "history">>, endpoint |-> "get_stock_history"],
      [path |-> <<"api", "stock", "{ticker}", "ohlc">>, endpoint |-> "get_stock_ohlc_data"]>>

\* a route's path matches: a parameter takes any non-empty segment
Matches(pattern, path) ==
    /\ Len(pattern) = Len(path)
    /\ \A i \in Len1(pattern) :
          IF pattern[i] = "{ticker}" THEN path[i] # "" ELSE pattern[i] = path[i]

\* the first route from position i on that matches the path: routes are tried
\* in the order of their registration
RECURSIVE Dispatch(_, _)
Dispatch(path, i) ==
    IF i > Len(Routes) THEN "404"
    ELSE IF Matches(Routes[i].path, path) THEN Routes[i].endpoint
    ELSE Dispatch(path, i + 1)

\* what a service function does when called
Outcomes ==
    {[kind |-> "ok", msg |-> ""],
     [kind |-> "ValueError", msg |-> "No data available"],
     [kind |-> "KeyError", msg |-> "'Close'"]}

\* the keys of the dictionary DataFetcher.basic_stock_info returns
BasicInfoKeys ==
    {"ticker", "name", "price", "change", "changePercent", "marketCap", "peRatio",
     "dividend", "volume", "avgVolume", "high", "low", "open", "prevClose"}

\* stock_service.basic_stock_info, given what DataFetcher.basic_stock_info
\* does: it reads raw_data['info'] and raw_data['history'] of the dictionary
BasicStockInfo(fetched) ==
    IF fetched.kind # "ok" THEN fetched
    ELSE IF "info" \notin BasicInfoKeys THEN [kind |-> "KeyError", msg |-> "'info'"]
    ELSE IF "history" \notin BasicInfoKeys THEN [kind |-> "KeyError", msg |-> "'history'"]
    ELSE [kind |-> "ok", msg |-> ""]

\* the service functions an endpoint calls, in order
ServiceCalls(endpoint) ==
    CASE endpoint = "get_basic_stock_info" -> <<"basic_stock_info">>
      [] endpoint = "compare_two_stocks" -> <<"compare_stocks">>
      [] endpoint = "get_single_stock" -> <<"single_stock">>
      [] endpoint = "get_today_performance" -> <<"today_performance">>
      [] endpoint = "get_fixed_period_performance" -> <<"fixed_period_performance">>
      [] endpoint = "get_performance_metrics" -> <<"get_stock_performance_metrics">>
      [] endpoint = "get_stock_history" -> <<"get_price_history", "get_volume_history">>
      [] endpoint = "get_stock_ohlc_data" -> <<"get_stock_ohlc">>
      [] OTHER -> <<>>

\* the prefix of the detail of the endpoint's answer to an unexpected error
ErrorPrefix(endpoint) ==
    CASE endpoint = "get_basic_stock_info" -> "Error fetching stock info: "
      [] endpoint = "compare_two_stocks" -> "Error comparing stocks: "
      [] endpoint = "get_top_performers_route" -> "Error fetching top performers: "
      [] endpoint = "get_single_stock" -> "Error fetching data: "
      [] endpoint = "get_today_performance" -> "Error fetching today's performance: "
      [] endpoint = "get_fixed_period_performance" -> "Error fetching period performance: "
      [] endpoint = "get_performance_metrics" -> "Error fetching performance metrics: "
      [] endpoint = "get_stock_history" -> "Error fetching history data: "
      [] endpoint = "get_stock_ohlc_data" -> "Error fetching OHLC data: "

\* what the service function fn does in this behaviour
ServiceOutcome(fn) ==
    IF fn = "basic_stock_info" THEN BasicStockInfo(service["DataFetcher.basic_stock_info"])
    ELSE service[fn]

\* the response of an endpoint: raise HTTPException(status, detail) or the body
Respond(endpoint, status, detail, calls) ==
    [NoRet EXCEPT !.call = endpoint, !.status = status, !.msg = detail, !.calls = calls,
                  !.raised = IF status = 200 THEN "none" ELSE "HTTPException"]

\* the try block answering a ValueError like any other exception
RECURSIVE CallServicesNoValueError(_, _, _, _)
CallServicesNoValueError(endpoint, fns, i, calls) ==
    IF i > Len(fns) THEN Respond(endpoint, 200, "", calls)
    ELSE LET o == ServiceOutcome(fns[i])
         IN  IF o.kind = "ok"
             THEN CallServicesNoValueError(endpoint, fns, i + 1, Append(calls, fns[i]))
             ELSE Respond(endpoint, 500, <<ErrorPrefix(endpoint), o.msg>>,
                          Append(calls, fns[i]))

\* the try block after validate_ticker: the service functions fns[i..] are
\* called in turn; a ValueError is answered with 400 and its message, any
\* other exception with 500 and the prefixed message
RECURSIVE CallServices(_, _, _, _)
CallServices(endpoint, fns, i, calls) ==
    IF i > Len(fns) THEN Respond(endpoint, 200, "", calls)
    ELSE LET o == ServiceOutcome(fns[i])
         IN  IF o.kind = "ok" THEN CallServices(endpoint, fns, i + 1, Append(calls, fns[i]))
             ELSE IF o.kind = "ValueError"
                  THEN Respond(endpoint, 400, o.msg, Append(calls, fns[i]))
             ELSE Respond(endpoint, 500, <<ErrorPrefix(endpoint), o.msg>>,
                          Append(calls, fns[i]))

\* an endpoint whose except clauses pass an HTTPException on (compare_two_stocks)
TickerEndpointReraising(endpoint, tickers) ==
    LET invalid == {i \in Len1(tickers) : ValidateTicker(tickers[i]).raised # "none"}
        first == CHOOSE i \in invalid : \A j \in invalid : i <= j
    IN  IF invalid # {}
        THEN Respond(endpoint, 422, ValidateTicker(tickers[first]).detail, <<>>)
        ELSE CallServices(endpoint, ServiceCalls(endpoint), 1, <<>>)

\* an endpoint with the clauses except ValueError and except Exception only:
\* the HTTPException of validate_ticker is an Exception and is answered with
\* 500, its text (status and detail) after the prefix
TickerEndpoint(endpoint, tickers) ==
    LET invalid == {i \in Len1(tickers) : ValidateTicker(tickers[i]).raised # "none"}
        first == CHOOSE i \in invalid : \A j \in invalid : i <= j
    IN  IF invalid # {}
        THEN Respond(endpoint, 500,
                     <<ErrorPrefix(endpoint), 422, ValidateTicker(tickers[first]).detail>>,
                     <<>>)
        ELSE CallServices(endpoint, ServiceCalls(endpoint), 1, <<>>)

(***************************************************************************)
(* get_top_performers (services/stock_service.py).  A constituent is the   *)
(* pair of its symbol and its exchange suffix: <<"TCS", "NS">> is TCS.NS.  *)
(***************************************************************************)
NIFTY_TICKERS ==
    <<<<"RELIANCE", "NS">>, <<"TCS", "NS">>, <<"HDFCBANK", "NS">>, <<"INFY", "NS">>,
      <<"HINDUNILVR", "NS">>, <<"ICICIBANK", "NS">>, <<"KOTAKBANK", "NS">>,
      <<"SBIN", "NS">>, <<"BAJFINANCE", "NS">>, <<"BHARTIARTL", "NS">>,
      <<"ASIANPAINT", "NS">>, <<"ITC", "NS">>, <<"AXISBANK", "NS">>, <<"LT", "NS">>,
      <<"MARUTI", "NS">>>>

SENSEX_TICKERS ==
    <<<<"RELIANCE", "BO">>, <<"HDFCBANK", "BO">>, <<"INFY", "BO">>, <<"ICICIBANK", "BO">>,
      <<"TCS", "BO">>, <<"HINDUNILVR", "BO">>, <<"KOTAKBANK", "BO">>, <<"SBIN", "BO">>,
      <<"BAJFINANCE", "BO">>, <<"BHARTIARTL", "BO">>, <<"ASIANPAINT", "BO">>,
      <<"ITC", "BO">>, <<"AXISBANK", "BO">>, <<"LT", "BO">>, <<"MARUTI", "BO">>>>

\* performers[:10]
TopCount ==
    10

\* the constituents whose fetches may fail are among the first MaxFailing
MaxFailing ==
    2

\* Return (%) of constituent i over the year, by the shape of the market
ChangePercent(profile, i) ==
    CASE profile = "rising" -> R(i)
      [] profile = "falling" -> R(-i)
      [] profile = "flat" -> Zero
      [] profile = "mixed" -> R((i % 3) - 1)

\* the market data behind one call of get_top_performers: for constituent i
\* the outcome of fixed_period_performance and of DataFetcher.basic_stock_info
Markets ==
    {[period |-> [i \in 1..Len(NIFTY_TICKERS) |->
                     IF i \in failing THEN [kind |-> "ValueError", changePercent |-> None]
                     ELSE [kind |-> "ok", changePercent |-> ChangePercent(profile, i)]],
      info |-> [i \in 1..Len(NIFTY_TICKERS) |->
                     IF i \in no_info THEN [kind |-> "ValueError", msg |-> "Failed to fetch stock info"]
                     ELSE [kind |-> "ok", msg |-> ""]]] :
        failing \in SUBSET (1..MaxFailing), no_info \in SUBSET (1..MaxFailing),
        profile \in {"rising", "falling", "flat", "mixed"}}

\* the performers list with the entry e put before the first entry of a
\* smaller changePercent, from position k on
RECURSIVE InsertDescending(_, _, _)
InsertDescending(sorted, e, k) ==
    IF k > Len(sorted) THEN Append(sorted, e)
    ELSE IF RLt(sorted[k].changePercent, e.changePercent)
         THEN SubSeq(sorted, 1, k - 1) \o <<e>> \o SubSeq(sorted, k, Len(sorted))
    ELSE InsertDescending(sorted, e, k + 1)

\* performers.sort(key=changePercent, reverse=True): stable, equal entries
\* keep their order
RECURSIVE SortDescending(_, _)
SortDescending(performers, k) ==
    IF k = 0 THEN <<>>
    ELSE InsertDescending(SortDescending(performers, k - 1), performers[k], 1)

\* the loop of get_top_performers over the first k constituents: an entry is
\* appended when fixed_period_performance and basic_stock_info both return,
\* and the constituent is skipped on any exception
RECURSIVE Performers(_, _, _)
Performers(tickers, market, k) ==
    IF k = 0 THEN <<>>
    ELSE LET rest == Performers(tickers, market, k - 1)
         IN  IF /\ market.period[k].kind = "ok"
                /\ BasicStockInfo(market.info[k]).kind = "ok"
             THEN Append(rest, [symbol |-> tickers[k][1],
                                changePercent |-> market.period[k].changePercent])
             ELSE rest

\* get_top_performers(index)
GetTopPerformers(index, market) ==
    IF index \notin {"NIFTY", "SENSEX"}
    THEN [kind |-> "ValueError", msg |-> "Index must be either NIFTY or SENSEX",
          value |-> None]
    ELSE LET tickers == IF index = "NIFTY" THEN NIFTY_TICKERS ELSE SENSEX_TICKERS
             performers == Performers(tickers, market, Len(tickers))
             sorted == SortDescending(performers, Len(performers))
         IN  [kind |-> "ok", msg |-> "",
              value |-> SubSeq(sorted, 1, IF Len(sorted) < TopCount THEN Len(sorted)
                                          ELSE TopCount)]

(***************************************************************************)
(* The requests and the steps of the stock routes.                         *)
(***************************************************************************)
Suffixes ==
    {<<>>, <<"info">>, <<"today">>, <<"period">>, <<"performance">>, <<"history">>,
     <<"ohlc">>, <<"news">>}

Indexes ==
    {"NIFTY", "SENSEX", "DOW"}

\* GET requests: the path and the query parameters the endpoints read (start
\* and end are present and well-formed)
StockRequests ==
    {[path |-> <<"api", "stock", t>> \o sfx, stock1 |-> "AAPL", stock2 |-> "GOOGL",
      index |-> "NIFTY"] : t \in TickerInputs, sfx \in Suffixes}
    \cup
    {[path |-> <<"api", "stock", "compare">>, stock1 |-> a, stock2 |-> b, index |-> "NIFTY"] :
        a \in {"AAPL", "aapl", ""}, b \in {"GOOGL", "ABCDEFGHIJK"}}
    \cup
    {[path |-> <<"api", "stock", "top-performers">>, stock1 |-> "AAPL", stock2 |-> "GOOGL",
      index |-> ix] : ix \in Indexes}

\* what the service functions of the endpoint do in one behaviour
ServiceWorlds(endpoint) ==
    CASE endpoint = "get_top_performers_route" -> Markets
      [] endpoint = "get_basic_stock_info" ->
             [{"DataFetcher.basic_stock_info"} -> Outcomes]
      [] endpoint = "get_stock_history" ->
             [{"get_price_history", "get_volume_history"} -> Outcomes]
      [] endpoint = "404" -> {None}
      [] OTHER -> [{ServiceCalls(endpoint)[1]} -> Outcomes]

Endpoint ==
    Dispatch(request.path, 1)

GetBasicStockInfo ==
    /\ Endpoint = "get_basic_stock_info" /\ ret.call = "none"
    /\ ret' = TickerEndpoint(Endpoint, <<request.path[3]>>)
    /\ UNCHANGED <<mu, S, opt, request, prices, series, service>>

CompareTwoStocks ==
    /\ Endpoint = "compare_two_stocks" /\ ret.call = "none"
    /\ ret' = TickerEndpointReraising(Endpoint, <<request.stock1, request.stock2>>)
    /\ UNCHANGED <<mu, S, opt, request, prices, series, service>>

\* the index check of the route comes first; get_top_performers repeats it
GetTopPerformersRoute ==
    /\ Endpoint = "get_top_performers_route" /\ ret.call = "none"
    /\ ret' = IF request.index \notin {"NIFTY", "SENSEX"}
              THEN Respond(Endpoint, 400, "Index must be either NIFTY or SENSEX", <<>>)
              ELSE LET r == GetTopPerformers(request.index, service)
                   IN  IF r.kind = "ok"
                       THEN [Respond(Endpoint, 200, "", <<"get_top_performers">>)
                                EXCEPT !.value = r.value]
                       ELSE Respond(Endpoint, 400, r.msg, <<"get_top_performers">>)
    /\ UNCHANGED <<mu, S, opt, request, prices, series, service>>

GetSingleStock ==
    /\ Endpoint = "get_single_stock" /\ ret.call = "none"
    /\ ret' = TickerEndpoint(Endpoint, <<request.path[3]>>)
    /\ UNCHANGED <<mu, S, opt, request, prices, series, service>>

GetTodayPerformance ==
    /\ Endpoint = "get_today_performance" /\ ret.call = "none"
    /\ ret' = TickerEndpoint(Endpoint, <<request.path[3]>>)
    /\ UNCHANGED <<mu, S, opt, request, prices, series, service>>

GetFixedPeriodPerformance ==
    /\ Endpoint = "get_fixed_period_performance" /\ ret.call = "none"
    /\ ret' = TickerEndpoint(Endpoint, <<request.path[3]>>)
    /\ UNCHANGED <<mu, S, opt, request, prices, series, service>>

GetPerformanceMetrics ==
    /\ Endpoint = "get_performance_metrics" /\ ret.call = "none"
    /\ ret' = TickerEndpoint(Endpoint, <<request.path[3]>>)
    /\ UNCHANGED <<mu, S, opt, request, prices, series, service>>

GetStockHistory ==
    /\ Endpoint = "get_stock_history" /\ ret.call = "none"
    /\ ret' = TickerEndpoint(Endpoint, <<request.path[3]>>)
    /\ UNCHANGED <<mu, S, opt, request, prices, series, service>>

GetStockOhlcData ==
    /\ Endpoint = "get_stock_ohlc_data" /\ ret.call = "none"
    /\ ret' = TickerEndpoint(Endpoint, <<request.path[3]>>)
    /\ UNCHANGED <<mu, S, opt, request, prices, series, service>>

\* no route matches the path
NotFound ==
    /\ Endpoint = "404" /\ ret.call = "none"
    /\ ret' = Respond("404", 404, "Not Found", <<>>)
    /\ UNCHANGED <<mu, S, opt, request, prices, series, service>>

\* get_top_performers called directly with the index and the market at hand
CallGetTopPerformers ==
    /\ Endpoint = "get_top_performers_route" /\ ret.call = "none"
    /\ LET r == GetTopPerformers(request.index, service)
       IN  ret' = IF r.kind = "ok"
                  THEN [NoRet EXCEPT !.call = "get_top_performers", !.arg = request.index,
                                     !.value = r.value]
                  ELSE Raise("get_top_performers", r.kind, r.msg, request.index)
    /\ UNCHANGED <<mu, S, opt, request, prices, series, service>>

StockInit ==
    /\ request \in StockRequests
    /\ service \in ServiceWorlds(Dispatch(request.path, 1))
    /\ mu = None /\ S = None /\ prices = None /\ series = None
    /\ opt = NoOpt
    /\ ret = NoRet

StockNext ==
    \/ GetBasicStockInfo
    \/ CompareTwoStocks
    \/ GetTopPerformersRoute
    \/ GetSingleStock
    \/ GetTodayPerformance
    \/ GetFixedPeriodPerformance
    \/ GetPerformanceMetrics
    \/ GetStockHistory
    \/ GetStockOhlcData
    \/ NotFound
    \/ CallGetTopPerformers

StockSpec ==
    StockInit /\ [][StockNext]_vars

(***************************************************************************)
(* Properties.                                                             *)
(***************************************************************************)
Returned(call) ==
    ret.call = call /\ ret.raised = "none"

IsDiagonal(C) ==
    \A i \in Len1(C), j \in Len1(C) : i # j => C[i][j] = Zero

PositiveVariances(C) ==
    \A i \in Len1(C) : RLt(Zero, C[i][i])

Round4Vec(w) ==
    MkVec(Len(w), [i \in 1..Len(w) |-> Round4(w[i])])

\* C1: whenever an optimizer returns a weight vector, the weights sum to 1.
\* The normalisation of BlackLittermanOptimizer.compute_portfolio divides by
\* the sum of inv(S) @ mu_bl, which can be 0.
C1_WeightsSumToOne ==
    (ret.raised = "none" /\ ret.weights # None) => VSum(ret.weights) = One

\* C2: every weight returned by Mean_variance_optimizer.compute_portfolio lies
\* in [0, 1].  The analytic weights are not bounded.
C2_MVWeightsWithinBounds ==
    Returned("Mean_variance_optimizer.compute_portfolio")
        => \A i \in Len1(ret.weights) :
               RLe(Zero, ret.weights[i]) /\ RLe(ret.weights[i], One)

\* C3: the analytic mean-variance weights at tau = 0 are weights that
\* MinimumVarianceOptimizer.compute_portfolio returns with its default bounds.
C3_MVAtZeroIsMinVar ==
    (Returned("Mean_variance_optimizer.compute_portfolio") /\ ret.arg = Zero)
        => ret.weights \in MinVarSolutions(S, LowerBound(FALSE), One)

\* C4: at tau = 0 the analytic mean-variance weights of a diagonal covariance
\* matrix sum to 1 and are proportional to the inverse variances, whatever mu
\* is; for Sigma = diag(0.0004, 0.0009) they are [0.6923, 0.3077] to 4 decimals.
C4_ScenarioMeanVariance ==
    (Returned("Mean_variance_optimizer.compute_portfolio") /\ ret.arg = Zero
     /\ IsDiagonal(S))
        => /\ VSum(ret.weights) = One
           /\ \A i \in Len1(S), j \in Len1(S) :
                  RMul(ret.weights[i], S[i][i]) = RMul(ret.weights[j], S[j][j])
           /\ S = ScenarioS2 => Round4Vec(ret.weights) = <<6923, 3077>>

C4_Witness ==
    /\ mu = ScenarioMu2
    /\ S = ScenarioS2
    /\ Returned("Mean_variance_optimizer.compute_portfolio")
    /\ ret.arg = Zero
    /\ ret.weights = <<<<9, 13>>, <<4, 13>>>>

C6_InverseVolatility ==
    (Returned("RiskParityOptimizer.compute_portfolio") /\ IsDiagonal(S)
     /\ PositiveVariances(S))
        => /\ VSum(ret.weights) = One
           /\ \A i \in Len1(S) : RLe(Zero, ret.weights[i])
           /\ \A i \in Len1(S), j \in Len1(S) :
                  /\ RMul(RMul(ret.weights[i], ret.weights[i]), S[i][i])
                       = RMul(RMul(ret.weights[j], ret.weights[j]), S[j][j])
                  /\ ret.risk_contrib.num[i] = ret.risk_contrib.num[j]
           /\ S = ScenarioS3 => Round4Vec(ret.weights) = <<2727, 1818, 5455>>

C6_Witness ==
    /\ S = ScenarioS3
    /\ Returned("RiskParityOptimizer.compute_portfolio")
    /\ ret.weights = <<<<3, 11>>, <<2, 11>>, <<6, 11>>>>

\* C7: the variance MinimumVarianceOptimizer.compute_portfolio returns is at
\* most the variance of the equal-weight portfolio, its starting point.
C7_MinVarAtMostEqualWeight ==
    Returned("MinimumVarianceOptimizer.compute_portfolio")
        => /\ ret.sigma_p2 = Quad(ret.weights, S)
           /\ RLe(ret.sigma_p2, Quad(EqualWeights(Len(S)), S))

C7_Witness ==
    /\ Returned("MinimumVarianceOptimizer.compute_portfolio")
    /\ RLt(ret.sigma_p2, Quad(EqualWeights(Len(S)), S))
    /\ ~IsDiagonal(S)
    /\ ret.arg = FALSE

\* C8: Black-Litterman with Omega the zero matrix (and P tau Sigma P^T
\* invertible, so that the blend exists) gives P mu_bl = Q.
C8_ZeroOmegaPinsViews ==
    (opt.cls = "BlackLittermanOptimizer" /\ opt.Omega = ZeroMat(Len(opt.P)))
        => MatVec(opt.P, opt.mu_bl) = opt.Q

C8_Witness ==
    /\ opt.cls = "BlackLittermanOptimizer"
    /\ opt.Omega = ZeroMat(Len(opt.P))
    /\ Len(opt.P) = 1
    /\ MatVec(opt.P, opt.mu) # opt.Q
    /\ ~IsDiagonal(opt.S)
    /\ MatVec(opt.P, opt.mu_bl) = opt.Q

\* C9: with a non-invertible covariance matrix, constructing
\* Mean_variance_optimizer and BlackLittermanOptimizer.compute_portfolio raise
\* the ValueError "Covariance matrix is not invertible.", and neither optimizer
\* returns weights.
C9_SingularCovarianceRaises ==
    ~Invertible(S)
        => /\ opt.cls # "Mean_variance_optimizer"
           /\ ret.call \in {"Mean_variance_optimizer.__init__",
                            "BlackLittermanOptimizer.compute_portfolio"}
                  => /\ ret.raised = "ValueError"
                     /\ ret.msg = "Covariance matrix is not invertible."
                     /\ ret.weights = None
           /\ ret.call = "Mean_variance_optimizer.compute_portfolio" => ret.weights = None

C9_Witness ==
    /\ S = Cov2(1, 1, One)
    /\ ret.call = "BlackLittermanOptimizer.compute_portfolio"
    /\ ret.raised = "ValueError"

\* C10: when the blend matrix P tau Sigma P^T + Omega is singular the blender
\* raises the ValueError the optimizers raise for a non-invertible covariance
\* matrix.  np.linalg.inv in _compute_bl_returns is not guarded, and its
\* LinAlgError leaves the constructor untranslated.
C10_SingularBlendRaisesValueError ==
    (ret.call = "BlackLittermanOptimizer.__init__" /\ ret.raised # "none")
        => ret.raised = "ValueError"

(***************************************************************************)
(* Properties of the reporting pipeline and of the risk utilities.         *)
(***************************************************************************)
TauEntryPoints ==
    {"optimize_portfolio", "MeanVarianceOptimizer.__init__",
     "Mean_variance_optimizer.compute_portfolio"}

CalledWithNegativeTau ==
    ret.call \in TauEntryPoints /\ RLt(ret.arg, Zero)

\* C11: a negative tau is rejected with a validation error at the route, at
\* the construction of MeanVarianceOptimizer and at compute_portfolio; the
\* call yields no weights, no report and no optimizer object.
C11_NegativeTauRejected ==
    CalledWithNegativeTau =>
        /\ ret.raised \in {"ValueError", "HTTPException"}
        /\ ret.weights = None /\ ret.value = None
        /\ ret.call = "optimize_portfolio" =>
               ret.status = 400 /\ ret.msg = "Risk tolerance tau must be non-negative"
        /\ ret.call = "MeanVarianceOptimizer.__init__" =>
               /\ opt = NoOpt
               /\ ret.msg \in {"Tickers must be a non-empty list",
                                "All tickers must be strings",
                                "Start and end dates must be datetime objects",
                                "Start date must be earlier than end date",
                                "Risk tolerance tau must be non-negative"}
        /\ ret.call = "Mean_variance_optimizer.compute_portfolio" =>
               ret.msg = "Risk tolerance tau must be non-negative."

\* a request whose only fault is its negative tau, answered by the constructor
C11_Witness ==
    /\ CalledWithNegativeTau
    /\ ret.call = "MeanVarianceOptimizer.__init__"
    /\ request.return_model = "historical_returns"
    /\ Len(request.tickers) = 2
    /\ ret.msg = "Risk tolerance tau must be non-negative"

\* the request is valid apart, possibly, from its return_model
OtherwiseValid(req) ==
    /\ Len(req.tickers) > 0
    /\ Strptime(req.start_date).ok /\ Strptime(req.end_date).ok
    /\ Strptime(req.start_date).day < Strptime(req.end_date).day
    /\ RLe(Zero, req.tau)

ReturnModelMessages ==
    {"return_model must be 'simple' or 'log'",
     "Only 'historical_returns' is supported for now"}

\* C12: an otherwise valid request to the route is not rejected for its
\* return_model when that is 'simple' or 'log', and is rejected with a
\* validation error (400) for any other value.
C12_SimpleAndLogAccepted ==
    (ret.call = "optimize_portfolio" /\ OtherwiseValid(request)) =>
        IF request.return_model \in {"simple", "log"}
        THEN ret.msg \notin ReturnModelMessages
        ELSE ret.status = 400 /\ ret.msg \in ReturnModelMessages

FiniteVector(w) ==
    \A i \in Len1(w) : IsFinite(w[i])

\* the percentages of a report's weights, in report order, in units of 1e-2
Percentages(report) ==
    MkVec(Len(report.weights), [i \in 1..Len(report.weights) |-> report.weights[i][2]])

\* C13: in a report with finite weights the percentage under each ticker is
\* the rounded weight of the price column of that ticker, whatever the order
\* of the tickers in the request and of the columns in the fetched table, and
\* the percentages sum to 100 up to the rounding of each.
C13_ReportWeightsByTicker ==
    (ret.call = "MeanVarianceOptimizer.generate_report" /\ FiniteVector(opt.weights)) =>
        /\ \A i \in Len1(opt.tickers) :
              ret.value.weights[i] =
                 <<opt.tickers[i],
                   Round2(RMul(opt.weights[PosIn(opt.prices.columns, opt.tickers[i])],
                               R(100)))>>
        /\ Abs(VSum(Percentages(ret.value))[1] - 10000) <= Len(opt.tickers)

\* C14: the maximum drawdown that generate_report computes from the weighted
\* portfolio price series prices @ weights lies in [-1, 0] ([-100, 0] percent).
C14_ReportDrawdownInRange ==
    (ret.call = "MeanVarianceOptimizer.generate_report" /\ FiniteVector(opt.weights)) =>
        /\ RLe(R(-10000), ret.value.maxDrawdown)
        /\ RLe(ret.value.maxDrawdown, Zero)

\* C15: the Sharpe ratio returned by the maximum-Sharpe optimizer is finite:
\* its excess return is finite and its volatility is neither zero nor nan
\* (a zero volatility makes the call fail instead).
C15_MaxSharpeRatioFinite ==
    Returned("MaximumSharpeRatioOptimizer.compute_portfolio") => QuotientFinite(ret.ratio)

\* sum of the squares of the entries below target among the first k
RECURSIVE SumSqBelow(_, _, _)
SumSqBelow(s, target, k) ==
    IF k = 0 THEN Zero
    ELSE RAdd(SumSqBelow(s, target, k - 1),
              IF RLt(s[k], target) THEN RMul(s[k], s[k]) ELSE Zero)

CountBelow(s, target) ==
    Cardinality({t \in Len1(s) : RLt(s[t], target)})

\* the mean of the squares of the entries strictly below target
MeanSquareBelow(s, target) ==
    RDiv(SumSqBelow(s, target, Len(s)), R(CountBelow(s, target)))

ZeroRatio ==
    SqrtQuotient(Zero, One)

\* C16: in a report the Sharpe ratio is (annualized return - 0.02) over the
\* annualized volatility sqrt(252 variance), and 0 when that is 0; the
\* Sortino ratio is the same numerator over the downside deviation of the
\* daily portfolio returns times sqrt(252), and 0 when that is 0; neither
\* has a zero denominator.
C16_ReportRatios ==
    ret.call = "MeanVarianceOptimizer.generate_report" =>
        LET excess == RSub(RMul(opt.expected_return, R(252)), <<2, 100>>)
            vol2 == RMul(R(252), opt.variance)
            down2 == IF CountBelow(opt.portfolio_returns, Zero) = 0 THEN Zero
                     ELSE RMul(R(252), MeanSquareBelow(opt.portfolio_returns, Zero))
        IN  /\ ret.value.sharpeRatio.num = IF IsZero(vol2) THEN Zero ELSE excess
            /\ ret.value.sharpeRatio.var = IF IsZero(vol2) THEN One ELSE vol2
            /\ ret.value.sortinoRatio.num = IF IsZero(down2) THEN Zero ELSE excess
            /\ ret.value.sortinoRatio.var = IF IsZero(down2) THEN One ELSE down2
            /\ ~IsZero(ret.value.sharpeRatio.var)
            /\ ~IsZero(ret.value.sortinoRatio.var)

\* a report for returns none of which is negative: the Sortino ratio is 0
\* and the Sharpe ratio a quotient
C16_Witness ==
    /\ ret.call = "MeanVarianceOptimizer.generate_report"
    /\ FiniteVector(opt.weights)
    /\ CountBelow(opt.portfolio_returns, Zero) = 0
    /\ ret.value.sortinoRatio = ZeroRatio
    /\ ret.value.sharpeRatio # ZeroRatio

\* C17: compute_downside_deviation(returns, target) is the root of the mean
\* of the squares of the returns strictly below target, and 0 when no return
\* is below target, the empty series included, for every target.
C17_DownsideDeviation ==
    ret.call = "compute_downside_deviation" =>
        /\ ret.raised = "none"
        /\ ret.value = IF CountBelow(series, ret.arg) = 0 THEN Sqrt(Zero)
                       ELSE Sqrt(MeanSquareBelow(series, ret.arg))

\* a nonzero target with returns below it, at it and above it
C17_Witness ==
    /\ ret.call = "compute_downside_deviation"
    /\ ret.arg = One
    /\ \E t \in Len1(series) : series[t] = One
    /\ \E t \in Len1(series) : RLt(One, series[t])
    /\ CountBelow(series, One) = 1
    /\ ~IsZero(ret.value.sqrt)

SolverCalls ==
    {"MinimumVarianceOptimizer.compute_portfolio",
     "MaximumSharpeRatioOptimizer.compute_portfolio",
     "RiskParityOptimizer.compute_portfolio"}

ConvergenceMessages ==
    {"Minimum variance optimization failed to converge.",
     "Maximum Sharpe ratio optimization failed to converge.",
     "Risk parity optimization failed to converge."}

\* C18: a solver-based compute_portfolio whose solver reports non-convergence
\* raises the convergence error and returns nothing; it returns weights only
\* after the solver reported success.
C18_NoWeightsWithoutConvergence ==
    ret.call \in SolverCalls =>
        /\ ret.success \in BOOLEAN
        /\ ~ret.success => /\ ret.raised = "ValueError"
                           /\ ret.msg \in ConvergenceMessages
                           /\ ret.weights = None /\ ret.sigma_p2 = None
        /\ ret.weights # None => ret.success /\ ret.raised = "none"

\* the risk-parity solver reported non-convergence
C18_Witness ==
    /\ ret.call = "RiskParityOptimizer.compute_portfolio"
    /\ ret.success = FALSE
    /\ ret.raised = "ValueError"

DataMessages ==
    {"Data fetching failed", "Price data contains missing values."}

\* C19: a construction that reaches the data source and gets an empty price
\* table, or one with a null cell, fails with a data error: no returns, mean
\* vector, covariance matrix or weights are produced.
C19_EmptyOrNullTableRejected ==
    (/\ ret.call = "MeanVarianceOptimizer.__init__"
     /\ ReachesFetch(request)
     /\ IsEmpty(prices) \/ HasNull(prices)) =>
        /\ ret.raised = "ValueError"
        /\ ret.msg \in DataMessages
        /\ ret.msg = "Data fetching failed" <=> IsEmpty(prices)
        /\ opt = NoOpt
        /\ ret.weights = None

\* a table of two rows with one null cell was fetched and rejected
C19_Witness ==
    /\ ret.call = "MeanVarianceOptimizer.__init__"
    /\ ReachesFetch(request)
    /\ Len(prices.rows) = 2
    /\ IsNaN(prices.rows[2][1])
    /\ ~IsNaN(prices.rows[1][1])
    /\ ret.msg = "Price data contains missing values."

\* C20: a construction that reaches the data source with fewer than two
\* assets, or that gets a single price row, is rejected with an error: no
\* optimizer object exists and no report can be produced.
C20_TooFewAssetsOrRowsRejected ==
    (/\ ret.call \in {"MeanVarianceOptimizer.__init__",
                      "MeanVarianceOptimizer.generate_report"}
     /\ ReachesFetch(request)
     /\ Len(request.tickers) < 2 \/ Len(prices.rows) = 1) =>
        /\ ret.raised = "ValueError"
        /\ opt = NoOpt

\* the table has no null and no ticker whose price is zero on two
\* consecutive rows
NoRepeatedZero(table) ==
    /\ ~HasNull(table)
    /\ \A t \in 2..Len(table.rows) : \A j \in Len1(table.columns) :
          ~(IsZero(table.rows[t][j]) /\ IsZero(table.rows[t - 1][j]))

\* the result has the n - 1 rows P_t / P_(t-1) - 1 of the table's rows 2..n
AllButFirstRow(table, returns) ==
    /\ Len(returns.rows) = Len(table.rows) - 1
    /\ \A t \in Len1(returns.rows) : \A j \in Len1(table.columns) :
          returns.rows[t][j] = RSub(RDiv(table.rows[t + 1][j], table.rows[t][j]), One)

InvalidInput(req) ==
    \/ Len(req.tickers) = 0
    \/ \E i \in Len1(req.tickers) : ~IsStr(req.tickers[i])
    \/ ~Strptime(req.start_date).ok
    \/ ~Strptime(req.end_date).ok
    \/ Strptime(req.start_date).day >= Strptime(req.end_date).day
    \/ RLt(req.tau, Zero)
    \/ req.return_model # "historical_returns"

ValidationMessages ==
    {"Tickers must be a non-empty list", "All tickers must be strings",
     "Start and end dates must be datetime objects",
     "Start date must be earlier than end date",
     "Risk tolerance tau must be non-negative",
     "Only 'historical_returns' is supported for now"}

\* C22: when one of the checks of MeanVarianceOptimizer.__init__ fails, the
\* error is raised before the data fetcher is called and before any returns,
\* covariance or weights are computed: the constructor has made no call, and
\* no object and no weights exist.
C22_ValidationBeforeFetch ==
    (ret.call = "MeanVarianceOptimizer.__init__" /\ InvalidInput(request)) =>
        /\ ret.raised = "ValueError"
        /\ ret.msg \in ValidationMessages
        /\ ret.calls = <<>>
        /\ ret.weights = None
        /\ opt = NoOpt

C22_Witness ==
    /\ ret.call = "MeanVarianceOptimizer.__init__"
    /\ ret.msg = "All tickers must be strings"
    /\ RLt(request.tau, Zero)
    /\ ret.calls = <<>>

(***************************************************************************)
(* Properties of the sweep over tau.                                       *)
(***************************************************************************)
FindOptimalCalls ==
    {"Mean_variance_optimizer.find_optimal_portfolio",
     "BlackLittermanOptimizer.find_optimal_portfolio"}

\* C23: with enforce_positive_weights = True the portfolio returned by
\* find_optimal_portfolio (mean-variance sweep, Black-Litterman) has every
\* weight >= 0.
C23_PositiveWeightsEnforced ==
    (/\ ret.call \in FindOptimalCalls
     /\ ret.raised = "none"
     /\ ret.arg.enforce_positive_weights) =>
        AllNonNegative(ret.weights)

\* sample k of the n evenly spaced samples of [lo, hi]
Sample(lo, hi, n, k) ==
    IF n = 1 THEN lo ELSE RAdd(lo, RDiv(RMul(R(k - 1), RSub(hi, lo)), R(n - 1)))

\* the portfolio of sample k of the sweep that returned
SampleResult(k) ==
    MVPortfolio(opt, Sample(ret.arg.tau_range[1], ret.arg.tau_range[2],
                            ret.arg.num_points, k))

\* sample k takes part in the selection of the sweep that returned
Eligible(k) ==
    \/ ~ret.arg.enforce_positive_weights
    \/ AllNonNegative(SampleResult(k).weights)
    \/ \A j \in 1..ret.arg.num_points : ~AllNonNegative(SampleResult(j).weights)

\* C24: the tau returned by the sweep is one of the num_points evenly spaced
\* samples of tau_range, eligible itself, with a ratio >= that of every
\* eligible sample, and the returned weights, return, variance and ratio are
\* those of compute_portfolio for that tau.
C24_SweepSelectsBestSample ==
    (ret.call = "Mean_variance_optimizer.find_optimal_portfolio" /\ ret.raised = "none") =>
        \E k \in 1..ret.arg.num_points :
            /\ ret.value = Sample(ret.arg.tau_range[1], ret.arg.tau_range[2],
                                  ret.arg.num_points, k)
            /\ Eligible(k)
            /\ ret.weights = SampleResult(k).weights
            /\ ret.mu_p = SampleResult(k).mu_p
            /\ ret.sigma_p2 = SampleResult(k).sigma_p2
            /\ ret.ratio = SampleResult(k).ratio
            /\ \A j \in 1..ret.arg.num_points :
                  Eligible(j) => RLe(SampleResult(j).ratio, ret.ratio)

\* a restricted sweep that passes over an ineligible sample of higher ratio
C24_Witness ==
    /\ ret.call = "Mean_variance_optimizer.find_optimal_portfolio"
    /\ ret.raised = "none"
    /\ ret.arg.enforce_positive_weights
    /\ ret.arg.num_points = 3
    /\ AllNonNegative(ret.weights)
    /\ \E j \in 1..3 : /\ ~AllNonNegative(SampleResult(j).weights)
                       /\ RLt(ret.ratio, SampleResult(j).ratio)

\* C25: a sweep with a negative lower bound, with an upper bound below the
\* lower one, or with num_points <= 0 ends with a ValueError and returns no
\* portfolio; for an invalid tau_range it is the error of the range check.
C25_InvalidSweepRejected ==
    (/\ ret.call = "Mean_variance_optimizer.find_optimal_portfolio"
     /\ \/ RLt(ret.arg.tau_range[1], Zero)
        \/ RLt(ret.arg.tau_range[2], ret.arg.tau_range[1])
        \/ ret.arg.num_points <= 0) =>
        /\ ret.raised = "ValueError"
        /\ ret.weights = None /\ ret.value = None /\ ret.ratio = None
        /\ (RLt(ret.arg.tau_range[1], Zero)
            \/ RLt(ret.arg.tau_range[2], ret.arg.tau_range[1])) =>
               ret.msg = "tau_range must contain non-negative values with min <= max."

C25_Witness ==
    /\ ret.call = "Mean_variance_optimizer.find_optimal_portfolio"
    /\ ret.raised = "ValueError"
    /\ ret.arg.tau_range = <<R(2), One>>
    /\ ret.arg.num_points = 3

TickerRoutes ==
    {"get_single_stock", "get_basic_stock_info", "get_today_performance",
     "get_fixed_period_performance", "get_performance_metrics", "get_stock_history"}

\* the first service function of the answered route that does not return
FirstFailing ==
    LET fns == ServiceCalls(ret.call)
        failing == {i \in Len1(fns) : ServiceOutcome(fns[i]).kind # "ok"}
    IN  IF failing = {} THEN 0 ELSE CHOOSE i \in failing : \A j \in failing : i <= j

\* C27: on the single stock, info, today, period, performance and history
\* routes a ValueError raised by the service call is answered with HTTP 400
\* whose detail is exactly the message of the error; on the history route a
\* ValueError of the price query gives 400 whatever the volume query would do.
C27_ValueErrorIs400 ==
    (ret.call \in TickerRoutes /\ ValidateTicker(request.path[3]).raised = "none") =>
        /\ (FirstFailing # 0
            /\ ServiceOutcome(ServiceCalls(ret.call)[FirstFailing]).kind = "ValueError") =>
               /\ ret.raised = "HTTPException"
               /\ ret.status = 400
               /\ ret.msg = ServiceOutcome(ServiceCalls(ret.call)[FirstFailing]).msg
        /\ (ret.call = "get_stock_history"
            /\ service["get_price_history"].kind = "ValueError") =>
               /\ ret.status = 400
               /\ ret.msg = service["get_price_history"].msg
               /\ ret.calls = <<"get_price_history">>

C27_Witness ==
    /\ ret.call = "get_stock_history"
    /\ request.path = <<"api", "stock", "AAPL", "history">>
    /\ service["get_price_history"].kind = "ValueError"
    /\ service["get_volume_history"].kind = "ok"
    /\ ret.status = 400
    /\ ret.msg = "No data available"

\* the tickers the answered route hands to validate_ticker
TickersOf(req, endpoint) ==
    IF endpoint = "compare_two_stocks" THEN <<req.stock1, req.stock2>>
    ELSE <<req.path[3]>>

ValidatingRoutes ==
    TickerRoutes \cup {"compare_two_stocks", "get_stock_ohlc_data"}

\* C28: on every stock route that calls validate_ticker a ticker failing its
\* format check (empty, or not 1-10 uppercase alphanumeric characters) is
\* answered with HTTP 422, and no service function is called for it.
C28_InvalidTickerIs422 ==
    (/\ ret.call \in ValidatingRoutes
     /\ \E i \in Len1(TickersOf(request, ret.call)) :
            ValidateTicker(TickersOf(request, ret.call)[i]).raised # "none") =>
        /\ ret.raised = "HTTPException"
        /\ ret.status = 422
        /\ ret.calls = <<>>

\* what does hold: the service is never called, compare_two_stocks answers
\* 422 and every other route answers 500
C28_InvalidTickerAnswer ==
    (/\ ret.call \in ValidatingRoutes
     /\ \E i \in Len1(TickersOf(request, ret.call)) :
            ValidateTicker(TickersOf(request, ret.call)[i]).raised # "none") =>
        /\ ret.raised = "HTTPException"
        /\ ret.status = IF ret.call = "compare_two_stocks" THEN 422 ELSE 500
        /\ ret.calls = <<>>

\* constituent i's period data and basic info were both fetched
Fetched(market, i) ==
    market.period[i].kind = "ok" /\ market.info[i].kind = "ok"

\* the fetched constituents other than i whose changePercent is not below i's
NotWorse(market, i) ==
    {j \in DOMAIN market.period :
        /\ j # i /\ Fetched(market, j)
        /\ RLe(market.period[i].changePercent, market.period[j].changePercent)}

Constituents(index) ==
    IF index = "NIFTY" THEN NIFTY_TICKERS ELSE SENSEX_TICKERS

\* C29: for index NIFTY or SENSEX get_top_performers returns at most 10
\* entries in descending order of changePercent, among them every constituent
\* whose period data and basic info were fetched and that ranks among the 10
\* best: a constituent is left out only when a fetch failed or it ranks below
\* the tenth.
C29_TopPerformers ==
    (ret.call = "get_top_performers" /\ ret.raised = "none") =>
        /\ Len(ret.value) <= TopCount
        /\ \A k \in 1..(Len(ret.value) - 1) :
               RLe(ret.value[k + 1].changePercent, ret.value[k].changePercent)
        /\ \A i \in DOMAIN service.period :
               (Fetched(service, i) /\ Cardinality(NotWorse(service, i)) < TopCount) =>
                   \E k \in Len1(ret.value) :
                       ret.value[k].symbol = Constituents(ret.arg)[i][1]

\* what does hold: no constituent is ever returned
C29_AlwaysEmpty ==
    (ret.call = "get_top_performers" /\ ret.raised = "none") => ret.value = <<>>

\* C30: a request to /api/stock/compare is answered by compare_two_stocks and
\* a request to /api/stock/top-performers by get_top_performers_route, never
\* by the handler of /api/stock/{ticker} with ticker 'compare' or
\* 'top-performers'.
C30_FixedPathsDispatched ==
    /\ request.path = <<"api", "stock", "compare">> =>
           /\ Endpoint = "compare_two_stocks"
           /\ ret.call \in {"none", "compare_two_stocks"}
    /\ request.path = <<"api", "stock", "top-performers">> =>
           /\ Endpoint = "get_top_performers_route"
           /\ ret.call \in {"none", "get_top_performers_route", "get_top_performers"}
    /\ ret.call = "get_single_stock" =>
           request.path[3] \notin {"compare", "top-performers"}

C30_Witness ==
    /\ request.path = <<"api", "stock", "top-performers">>
    /\ request.index = "SENSEX"
    /\ ret.call = "get_top_performers_route"
    /\ ret.status = 200

\* the parameterised route does answer other paths
C30_TickerRouteAnswers ==
    /\ request.path = <<"api", "stock", "AAPL">>
    /\ ret.call = "get_single_stock"

====
